---- MODULE Spec2Model ----
(***************************************************************************)
(* Model of the SPORTident protocol driver of ngz                           *)
(* (src/src/si-protocol/SiDriver.ts).                                       *)
(*                                                                          *)
(* Scheduling.  The driver is one async task on the Node event loop.  A     *)
(* continuation of that task runs without interruption from the point      *)
(* where a promise settles to the next point where the task really has to  *)
(* wait: port.setBaudRate, port.write, a take() on an empty queue and a     *)
(* takeForever() on an empty queue.  (An await on an already available     *)
(* frame resumes in a microtask, before any timer, serial-data or stop()   *)
(* callback can run.)  Each action below is therefore one callback of the  *)
(* event loop together with the whole continuation it resumes.             *)
(*                                                                          *)
(* `trace' is the observable history: the statuses, cardRead events, ERROR *)
(* logs, port calls, stop(), the frames the task took from the queue       *)
(* the failures it was handed and the error start() caught, in the order   *)
(* in which they happened.                                                 *)
(* To keep it finite, every action first forgets what lies before the      *)
(* latest READY status (see Cur) and then appends what it does, so the     *)
(* events of one action are never cut apart.  `past' is the set of         *)
(* statuses and cardRead events that were forgotten.                       *)
(*                                                                          *)
(* The pure functions of the repository (the card decoders of              *)
(* SiDataFrame.ts and the course validation of validator.ts) are operators *)
(* further down; `call' holds one invocation of such a function: its       *)
(* arguments and, once it was applied, its result.                         *)
(*                                                                          *)
(* Three parts of the driver are also modelled on their own, in more       *)
(* detail than the driver's actions need: the readouts from READY on with  *)
(* every punch count (SpecReadout), the byte accumulator of                *)
(* handleSerialData() (SpecAcc) and SiMessageQueue with several callers    *)
(* (SpecQueue).  In the last two `call' holds the callers' side.            *)
(***************************************************************************)
EXTENDS Integers, Sequences, FiniteSets, TLC

VARIABLES running, pc, ctx, queue, waiters, trace, past, closed, call,
          accBuffer, lastDataTime, now

driver == <<running, pc, ctx, queue, waiters, trace, past, closed>>

\* the accumulator of handleSerialData(): accBuffer holds the accSize bytes
\* in use, lastDataTime the time of the last chunk, now is Date.now()
accumulator == <<accBuffer, lastDataTime, now>>

vars == <<driver, call, accumulator>>

(* ------------------------------ bounds -------------------------------- *)

\* number of frames that may sit in the queue unread
MaxQueue == 1

(* ------------------------- protocol constants -------------------------- *)

GET_SYSTEM_VALUE == 131
SET_MASTER_MODE == 240
BEEP == 249
SI_CARD_5_DETECTED == 229
SI_CARD_6_PLUS_DETECTED == 230
SI_CARD_8_PLUS_DETECTED == 232
SI_CARD_REMOVED == 231
GET_SI_CARD_5 == 177
GET_SI_CARD_6_BN == 225
GET_SI_CARD_8_PLUS_BN == 239
SI3_NUMBER_INDEX == 5
SI_CARD_10_PLUS_SERIES == 15
EXTENDED_PROTOCOL_MASK == 1
HANDSHAKE_MODE_MASK == 4
HIGH_BAUD == 38400
LOW_BAUD == 4800
\* stands for the `undefined' a Buffer yields when read past its end
NoByte == -1

Min(a, b) == IF a < b THEN a ELSE b

\* b & 0xff, for a byte or undefined
AndFF(b) == IF b = NoByte THEN 0 ELSE b % 256

\* (b & mask) # 0 for a one-bit mask
BitSet(b, mask) == (AndFF(b) \div mask) % 2 = 1

(* ------------------------------- frames -------------------------------- *)
(* A received frame, reduced to what the driver reads of it: the command   *)
(* byte, the bytes at indices 5, 6, 24 and 28, and whether it is valid     *)
(* (STX first, ETX last, embedded CRC equal to the computed one).          *)

Frame(cmd, ok, b5, b6, b24, b28) ==
    [cmd |-> cmd, ok |-> ok, b5 |-> b5, b6 |-> b6, b24 |-> b24, b28 |-> b28]

NoFrame == Frame(NoByte, FALSE, NoByte, NoByte, NoByte, NoByte)

\* a valid frame without data (LEN = 0): STX, command, LEN, two CRC bytes,
\* ETX; index 5 holds the ETX and there is nothing behind it
ShortFrame(cmd) == Frame(cmd, TRUE, 3, NoByte, NoByte, NoByte)

\* values of byte 6 of a GET_SYSTEM_VALUE answer: every combination of the
\* extended-protocol and the handshake bit
CfgBytes == {0, 1, 4, 5}

\* values of the punch-count byte of a first readout block
NbBytes == {0, 1}

Frames ==
    {Frame(SET_MASTER_MODE, TRUE, 0, 0, 0, 0)}
    \cup {Frame(GET_SYSTEM_VALUE, TRUE, 0, b, 0, 0) : b \in CfgBytes}
    \cup {Frame(SI_CARD_5_DETECTED, TRUE, 0, 0, 0, 0),
          Frame(SI_CARD_6_PLUS_DETECTED, TRUE, 0, 0, 0, 0),
          Frame(SI_CARD_8_PLUS_DETECTED, TRUE, SI_CARD_10_PLUS_SERIES, 0, 0, 0),
          Frame(SI_CARD_8_PLUS_DETECTED, TRUE, 2, 0, 0, 0),
          Frame(SI_CARD_REMOVED, TRUE, 0, 0, 0, 0),
          Frame(BEEP, TRUE, 0, 0, 0, 0),
          Frame(GET_SI_CARD_5, TRUE, 0, 0, 0, 0),
          Frame(GET_SI_CARD_5, FALSE, 0, 0, 0, 0),
          ShortFrame(GET_SI_CARD_5)}
    \cup {Frame(GET_SI_CARD_6_BN, TRUE, 0, 0, n, 0) : n \in NbBytes}
    \cup {Frame(GET_SI_CARD_8_PLUS_BN, TRUE, 0, 0, 0, n) : n \in NbBytes}

ByteAt(f, i) ==
    CASE i = 5 -> f.b5
      [] i = 6 -> f.b6
      [] i = 24 -> f.b24
      [] i = 28 -> f.b28
      [] OTHER -> NoByte

Check(f, command) == f.ok /\ f.cmd = command

(* --------------------------- request frames ---------------------------- *)

CommandByte(m) ==
    CASE m = "STARTUP_SEQUENCE" -> SET_MASTER_MODE
      [] m \in {"GET_PROTOCOL_CONFIGURATION", "GET_CARDBLOCKS_CONFIGURATION"}
           -> GET_SYSTEM_VALUE
      [] m = "BEEP_TWICE" -> BEEP
      [] m = "READ_SICARD_5" -> GET_SI_CARD_5
      [] m \in {"READ_SICARD_6_B0", "READ_SICARD_6_B6", "READ_SICARD_6_B7",
                "READ_SICARD_6_PLUS_B2", "READ_SICARD_6_PLUS_B3",
                "READ_SICARD_6_PLUS_B4", "READ_SICARD_6_PLUS_B5"}
           -> GET_SI_CARD_6_BN
      [] m \in {"READ_SICARD_8_PLUS_B0", "READ_SICARD_8_PLUS_B1",
                "READ_SICARD_10_PLUS_B4", "READ_SICARD_10_PLUS_B5",
                "READ_SICARD_10_PLUS_B6", "READ_SICARD_10_PLUS_B7"}
           -> GET_SI_CARD_8_PLUS_BN
      [] OTHER -> NoByte

\* the block number a block request carries (its byte 3)
BlockNumber(m) ==
    CASE m \in {"READ_SICARD_6_B0", "READ_SICARD_8_PLUS_B0"} -> 0
      [] m = "READ_SICARD_8_PLUS_B1" -> 1
      [] m = "READ_SICARD_6_PLUS_B2" -> 2
      [] m = "READ_SICARD_6_PLUS_B3" -> 3
      [] m \in {"READ_SICARD_6_PLUS_B4", "READ_SICARD_10_PLUS_B4"} -> 4
      [] m \in {"READ_SICARD_6_PLUS_B5", "READ_SICARD_10_PLUS_B5"} -> 5
      [] m \in {"READ_SICARD_6_B6", "READ_SICARD_10_PLUS_B6"} -> 6
      [] m \in {"READ_SICARD_6_B7", "READ_SICARD_10_PLUS_B7"} -> 7
      [] OTHER -> NoByte

SICARD_5_READOUT_COMMANDS == <<"READ_SICARD_5">>

SICARD_6_READOUT_COMMANDS ==
    <<"READ_SICARD_6_B0", "READ_SICARD_6_B6", "READ_SICARD_6_B7",
      "READ_SICARD_6_PLUS_B2", "READ_SICARD_6_PLUS_B3",
      "READ_SICARD_6_PLUS_B4", "READ_SICARD_6_PLUS_B5">>

SICARD_8_9_READOUT_COMMANDS ==
    <<"READ_SICARD_8_PLUS_B0", "READ_SICARD_8_PLUS_B1">>

SICARD_10_PLUS_READOUT_COMMANDS ==
    <<"READ_SICARD_8_PLUS_B0", "READ_SICARD_10_PLUS_B4",
      "READ_SICARD_10_PLUS_B5", "READ_SICARD_10_PLUS_B6",
      "READ_SICARD_10_PLUS_B7">>

CardTypes == {"SiCard 5", "SiCard 6", "SiCard 8/9", "SiCard 10/11/SIAC"}

Commands(card) ==
    CASE card = "SiCard 5" -> SICARD_5_READOUT_COMMANDS
      [] card = "SiCard 6" -> SICARD_6_READOUT_COMMANDS
      [] card = "SiCard 8/9" -> SICARD_8_9_READOUT_COMMANDS
      [] card = "SiCard 10/11/SIAC" -> SICARD_10_PLUS_READOUT_COMMANDS

\* index of the punch-count byte in the first response (readMultipleBlocks)
NbPunchesIndex(card) == IF card = "SiCard 6" THEN 18 + 6 ELSE 22 + 6

\* mutant of TotalBlocks: only whole groups of 32 punches count
TotalBlocksWholeGroups(nbPunches) ==
    (nbPunches \div 32) + 1

\* readMultipleBlocks: header block plus one block per started 32 punches
TotalBlocks(nbPunches) ==
    (nbPunches \div 32) + Min(1, nbPunches % 32) + 1

\* number of requests of a readout, known once the first block is in
BlocksToRead(card, firstBlock) ==
    IF card \in {"SiCard 6", "SiCard 10/11/SIAC"}
    THEN Min(TotalBlocks(AndFF(ByteAt(firstBlock, NbPunchesIndex(card)))),
             Len(Commands(card)))
    ELSE Len(Commands(card))

(* ------------------------------- events -------------------------------- *)

Ev(kind, arg, n, frame) ==
    [kind |-> kind, arg |-> arg, msg |-> "", n |-> n, frame |-> frame]

Status(s) == Ev("status", s, 0, NoFrame)
Fatal(msg) == [Ev("status", "FATAL_ERROR", 0, NoFrame) EXCEPT !.msg = msg]
LogError == Ev("log", "ERROR", 0, NoFrame)
Sent(m) == Ev("send", m, 0, NoFrame)
Baud(rate) == Ev("setBaudRate", "", rate, NoFrame)
Closed == Ev("close", "", 0, NoFrame)
Taken(f) == Ev("take", "", 0, f)
CardRead(card, blocks) == Ev("cardRead", card, blocks, NoFrame)
StopCalled == Ev("stop", "", 0, NoFrame)
Rejected(what) == Ev("reject", what, 0, NoFrame)
Caught(msg) == [Ev("catch", "", 0, NoFrame) EXCEPT !.msg = msg]

(* ------------------------------- errors -------------------------------- *)

MsgNoAnswer == "Master station did not answer to startup sequence (high/low baud)"
MsgNoExtended == "Master station should be configured with extended protocol"
MsgNoHandshake == "Master station should be configured in handshake mode (no autosend)"

TimeoutError == [name |-> "TimeoutError", message |-> "Message timeout"]
InvalidMessageError == [name |-> "InvalidMessageError", message |-> "Invalid message"]
QueueCleared == [name |-> "Error", message |-> "Queue cleared"]
PortError == [name |-> "Error", message |-> "port failure"]
ConfigError(msg) == [name |-> "Error", message |-> msg]

(* ---------------------------- driver state ----------------------------- *)

NoCtx == [at |-> "none", attempt |-> 0, stage |-> 0, card |-> "", i |-> 0, total |-> 0]

StartupCtx(attempt, stage) == [NoCtx EXCEPT !.at = "startup", !.attempt = attempt, !.stage = stage]
ReadCtx(card, i, total) == [NoCtx EXCEPT !.at = "read", !.card = card, !.i = i, !.total = total]
AckCtx(card) == [NoCtx EXCEPT !.at = "ack", !.card = card]

\* what `past' keeps of an event
Mark(e) == IF e.kind = "status" THEN e.arg ELSE e.kind

Marks(tr) ==
    {Mark(tr[k]) : k \in {j \in 1..Len(tr) : tr[j].kind \in {"status", "cardRead"}}}

\* index of the latest READY status in tr, 1 if there is none
LastReady(tr) ==
    LET S == {k \in 1..Len(tr) : tr[k].kind = "status" /\ tr[k].arg = "READY"}
    IN  IF S = {} THEN 1 ELSE CHOOSE k \in S : \A j \in S : j <= k

\* the current state, its history cut at the latest READY
Cur == [running |-> running, pc |-> pc, ctx |-> ctx, queue |-> queue,
        waiters |-> waiters,
        trace |-> SubSeq(trace, LastReady(trace), Len(trace)),
        past |-> past \cup Marks(SubSeq(trace, 1, LastReady(trace) - 1)),
        closed |-> closed]

\* the next state is `next' (evaluated once)
Becomes(next) ==
    \E s \in {next} :
        /\ running' = s.running
        /\ pc' = s.pc
        /\ ctx' = s.ctx
        /\ queue' = s.queue
        /\ waiters' = s.waiters
        /\ trace' = s.trace
        /\ past' = s.past
        /\ closed' = s.closed
        /\ UNCHANGED <<call, accumulator>>

\* this.emit(...) and the other observable calls
Emit(s, e) == [s EXCEPT !.trace = Append(@, e)]


(* ----------------------- the driver's continuations --------------------- *)

RECURSIVE MainLoop(_)
RECURSIVE DispatchReady(_, _)

\* send(): log SEND and await port.write()
Send(s, m, c) == [Emit(s, Sent(m)) EXCEPT !.pc = "write", !.ctx = c]

\* start(), finally block
Finally(s) ==
    [Emit(Emit([s EXCEPT !.running = FALSE, !.closed = @ + 1], Closed), Status("OFF"))
        EXCEPT !.pc = "done", !.ctx = NoCtx]

\* mutant of StartCatch: the error is swallowed, no FATAL_ERROR
StartCatchSilent(s, err) == Finally(Emit(s, Caught(err.message)))

\* start(), catch block
StartCatch(s, err) ==
    LET t == Emit(s, Caught(err.message))
    IN  IF t.running
        THEN Finally(Emit(Emit(t, LogError), Fatal(err.message)))
        ELSE Finally(t)

\* startup(): the request of stage n
StartupRequest(stage) ==
    CASE stage = 1 -> "STARTUP_SEQUENCE"
      [] stage = 2 -> "GET_PROTOCOL_CONFIGURATION"
      [] stage = 3 -> "GET_CARDBLOCKS_CONFIGURATION"
      [] stage = 4 -> "BEEP_TWICE"

\* startup() from its first line
Startup(s, attempt) == Send(s, StartupRequest(1), StartupCtx(attempt, 1))

\* startupBootstrap(): await port.setBaudRate(rate)
SetBaudRate(s, rate, attempt) ==
    [Emit(s, Baud(rate)) EXCEPT !.pc = "baud", !.ctx = StartupCtx(attempt, 0)]

\* mutant of StartupThrow: the first attempt is retried whatever the error
StartupThrowRetriesAll(s, err) ==
    IF s.ctx.attempt = 1
    THEN SetBaudRate(s, LOW_BAUD, 2)
    ELSE IF err.name = "TimeoutError"
         THEN StartCatch(s, ConfigError(MsgNoAnswer))
         ELSE StartCatch(s, err)

\* startupBootstrap(): the two catch blocks
StartupThrow(s, err) ==
    IF s.ctx.attempt = 1
    THEN IF err.name = "TimeoutError"
         THEN SetBaudRate(s, LOW_BAUD, 2)
         ELSE StartCatch(s, err)
    ELSE IF err.name = "TimeoutError"
         THEN StartCatch(s, ConfigError(MsgNoAnswer))
         ELSE StartCatch(s, err)

\* startupBootstrap() from its first line
StartupBootstrap(s) == SetBaudRate(s, HIGH_BAUD, 1)

\* mutant of ConfigCheck: the handshake bit is tested first
ConfigCheckHandshakeFirst(cpcByte) ==
    IF ~(BitSet(cpcByte, EXTENDED_PROTOCOL_MASK) /\ BitSet(cpcByte, HANDSHAKE_MODE_MASK))
    THEN IF ~BitSet(cpcByte, HANDSHAKE_MODE_MASK)
         THEN MsgNoHandshake
         ELSE MsgNoExtended
    ELSE "ok"

\* startup(): the check of byte 6 of the protocol-configuration answer
ConfigCheck(cpcByte) ==
    IF ~(BitSet(cpcByte, EXTENDED_PROTOCOL_MASK) /\ BitSet(cpcByte, HANDSHAKE_MODE_MASK))
    THEN IF ~BitSet(cpcByte, EXTENDED_PROTOCOL_MASK)
         THEN MsgNoExtended
         ELSE MsgNoHandshake
    ELSE "ok"

\* mutant of PollAnswer: only the command byte is compared
PollAnswerCommandOnly(msg, command) == msg.cmd = command

\* pollAnswer(): the check of the frame taken
PollAnswer(msg, command) == Check(msg, command)

\* mutant of StartupAnswer: the answer is not checked against the request
StartupAnswerUnchecked(s, msg) ==
    IF s.ctx.stage = 2 /\ ConfigCheck(ByteAt(msg, 6)) # "ok"
    THEN StartupThrow(s, ConfigError(ConfigCheck(ByteAt(msg, 6))))
    ELSE Send(s, StartupRequest(s.ctx.stage + 1), StartupCtx(s.ctx.attempt, s.ctx.stage + 1))

\* startup(): a frame was taken by the pollAnswer of stage s.ctx.stage
StartupAnswer(s, msg) ==
    LET stage == s.ctx.stage
        attempt == s.ctx.attempt
    IN  IF ~PollAnswer(msg, CommandByte(StartupRequest(stage)))
        THEN StartupThrow(s, InvalidMessageError)
        ELSE IF stage = 2 /\ ConfigCheck(ByteAt(msg, 6)) # "ok"
        THEN StartupThrow(s, ConfigError(ConfigCheck(ByteAt(msg, 6))))
        ELSE Send(s, StartupRequest(stage + 1), StartupCtx(attempt, stage + 1))

\* mutant of HandleReadError: a read error ends the run
HandleReadErrorExits(s) ==
    Finally(Emit(Emit(s, LogError), Status("PROCESSING_ERROR")))

\* handleReadError(), then back to the loop of start()
HandleReadError(s) ==
    MainLoop(Emit(Emit(s, LogError), Status("PROCESSING_ERROR")))

\* ackAndWaitRemoval() from its first line
AckAndWaitRemoval(s, card) == Send(s, "ACK_SEQUENCE", AckCtx(card))

\* retrieveSiCardX(): all blocks are in: decode, emit cardRead, acknowledge
Decoded(s, card, blocks) ==
    AckAndWaitRemoval(Emit(s, CardRead(card, blocks)), card)

\* mutant of ReadAnswer: the card is decoded once the first block is in
ReadAnswerFirstBlockOnly(s, msg) ==
    IF ~PollAnswer(msg, CommandByte(Commands(s.ctx.card)[s.ctx.i]))
    THEN HandleReadError(s)
    ELSE Decoded(s, s.ctx.card, s.ctx.i)

\* readAllBlocks() / readMultipleBlocks() / retrieveSiCard5(): a frame was
\* taken by the pollAnswer of request s.ctx.i
ReadAnswer(s, msg) ==
    LET card == s.ctx.card
        i == s.ctx.i
        total == IF i = 1 THEN BlocksToRead(card, msg) ELSE s.ctx.total
    IN  IF ~PollAnswer(msg, CommandByte(Commands(card)[i]))
        THEN HandleReadError(s)
        ELSE IF i < total
        THEN Send(s, Commands(card)[i + 1], ReadCtx(card, i + 1, total))
        ELSE Decoded(s, card, i)

\* retrieveSiCardX() from its first line
Retrieve(s, card) == Send(s, Commands(card)[1], ReadCtx(card, 1, 0))

\* the task was handed frame msg by the queue
Resume(s, msg) ==
    LET t == Emit(s, Taken(msg))
    IN  CASE s.ctx.at = "startup" -> StartupAnswer(t, msg)
          [] s.ctx.at = "read" -> ReadAnswer(t, msg)
          [] s.ctx.at = "ack" -> MainLoop(t)
          [] OTHER -> DispatchReady(t, msg)

\* mutant of Reject: a failed wait for the card removal is a read error
RejectAckFails(s, err) ==
    CASE s.ctx.at = "startup" -> StartupThrow(s, err)
      [] s.ctx.at = "read" -> HandleReadError(s)
      [] s.ctx.at = "ack" -> HandleReadError(s)
      [] OTHER -> s

\* the pending take() of the task failed with err
Reject(s, err) ==
    CASE s.ctx.at = "startup" -> StartupThrow(s, err)
      [] s.ctx.at = "read" -> HandleReadError(s)
      [] s.ctx.at = "ack" -> MainLoop(s)
      [] OTHER -> s

\* SiMessageQueue.take(timeoutMs) called by the task
Take(s) ==
    IF Len(s.queue) > 0
    THEN Resume([s EXCEPT !.queue = Tail(@)], Head(s.queue))
    ELSE [s EXCEPT !.pc = "take", !.waiters = Append(@, "take")]

\* SiMessageQueue.takeForever() called by the task
TakeForever(s) ==
    IF Len(s.queue) > 0
    THEN Resume([s EXCEPT !.queue = Tail(@), !.ctx = NoCtx], Head(s.queue))
    ELSE [s EXCEPT !.pc = "ready", !.ctx = NoCtx, !.waiters = Append(@, "forever")]

\* mutant of MainLoop: READY is not emitted again
MainLoopSilent(s) ==
    IF s.running
    THEN TakeForever(s)
    ELSE Finally(s)

\* start(): the while loop, from its test
MainLoop(s) ==
    IF s.running
    THEN TakeForever(Emit(s, Status("READY")))
    ELSE Finally(s)

\* mutant of DispatchReady: every Card-8+ detection is read as a Card 10+
DispatchReadyAll10Plus(s, msg) ==
    IF ~s.running
    THEN MainLoop(s)
    ELSE LET t == Emit(s, Status("PROCESSING"))
         IN  CASE msg.cmd = SI_CARD_5_DETECTED -> Retrieve(t, "SiCard 5")
               [] msg.cmd = SI_CARD_6_PLUS_DETECTED -> Retrieve(t, "SiCard 6")
               [] msg.cmd = SI_CARD_8_PLUS_DETECTED -> Retrieve(t, "SiCard 10/11/SIAC")
               [] OTHER -> MainLoop(t)

\* dispatchReady(), after takeForever() returned msg
DispatchReady(s, msg) ==
    IF ~s.running
    THEN MainLoop(s)
    ELSE LET t == Emit(s, Status("PROCESSING"))
         IN  CASE msg.cmd = SI_CARD_5_DETECTED -> Retrieve(t, "SiCard 5")
               [] msg.cmd = SI_CARD_6_PLUS_DETECTED -> Retrieve(t, "SiCard 6")
               [] msg.cmd = SI_CARD_8_PLUS_DETECTED ->
                    IF ByteAt(msg, SI3_NUMBER_INDEX) = SI_CARD_10_PLUS_SERIES
                    THEN Retrieve(t, "SiCard 10/11/SIAC")
                    ELSE Retrieve(t, "SiCard 8/9")
               [] OTHER -> MainLoop(t)

\* the continuation after port.write() resolved
Written(s) ==
    CASE s.ctx.at = "startup" ->
           IF s.ctx.stage < 4 THEN Take(s) ELSE MainLoop(Emit(s, Status("ON")))
      [] OTHER -> Take(s)

\* the continuation after port.write() rejected
WriteFailed(s) ==
    CASE s.ctx.at = "startup" -> StartupThrow(s, PortError)
      [] OTHER -> HandleReadError(s)


(* ------------------------------- actions -------------------------------- *)

\* no pure function is being applied
NoCall == [fn |-> "none"]

\* Date.now() when the driver is constructed
Epoch == 1000

\* the accumulator fields of a new driver
AccInit ==
    /\ accBuffer = <<>>
    /\ lastDataTime = 0
    /\ now = Epoch

Count(kind, arg) ==
    Cardinality({k \in 1..Len(trace) : trace[k].kind = kind /\ trace[k].arg = arg})

Init ==
    /\ running = FALSE
    /\ pc = "idle"
    /\ ctx = NoCtx
    /\ queue = <<>>
    /\ waiters = <<>>
    /\ trace = <<>>
    /\ past = {}
    /\ closed = 0
    /\ call = NoCall
    /\ AccInit

\* start() is called: runs up to the first port.setBaudRate()
Start ==
    /\ pc = "idle"
    /\ Becomes(StartupBootstrap(Emit([Cur EXCEPT !.running = TRUE], Status("STARTING"))))

\* SiMessageQueue.clear(): waiters of take() are rejected, those of
\* takeForever() have an empty reject and stay suspended for good
Clear(s) ==
    LET t == [s EXCEPT !.waiters = <<>>, !.queue = <<>>]
    IN  IF \E k \in 1..Len(s.waiters) : s.waiters[k] = "take"
        THEN Reject(Emit(t, Rejected("Queue cleared")), QueueCleared)
        ELSE t

\* stop() is called while the start() task is alive; the history records
\* the call that finds the driver running
Stop ==
    /\ pc \notin {"idle", "done"}
    /\ Becomes(Clear([(IF running THEN Emit(Cur, StopCalled) ELSE Cur)
                         EXCEPT !.running = FALSE]))

\* port.setBaudRate() resolves
SetBaudRateResolved ==
    /\ pc = "baud"
    /\ Becomes(Startup(Cur, ctx.attempt))

\* port.setBaudRate() rejects
SetBaudRateRejected ==
    /\ pc = "baud"
    /\ Becomes(StartupThrow(Emit(Cur, Rejected("setBaudRate")), PortError))

\* port.write() resolves
WriteResolved ==
    /\ pc = "write"
    /\ Becomes(Written(Cur))

\* port.write() rejects
WriteRejected ==
    /\ pc = "write"
    /\ Becomes(WriteFailed(Emit(Cur, Rejected("write"))))

\* SiMessageQueue.push(msg), called by dispatchMessage() when the accumulator
\* holds a whole frame
Push(s, msg) ==
    IF Len(s.waiters) > 0
    THEN Resume([s EXCEPT !.waiters = Tail(@)], msg)
    ELSE [s EXCEPT !.queue = Append(@, msg)]

\* handleSerialData() completes a frame while the port is open
HandleSerialData ==
    /\ closed = 0
    /\ Len(waiters) > 0 \/ Len(queue) < MaxQueue
    /\ \E msg \in Frames : Becomes(Push(Cur, msg))

\* the timer of a pending take(timeoutMs) fires
TakeTimeout ==
    /\ \E k \in 1..Len(waiters) :
          /\ waiters[k] = "take"
          /\ Becomes(Reject(Emit([Cur EXCEPT !.waiters = SubSeq(@, 1, k - 1)
                                                            \o SubSeq(@, k + 1, Len(@))],
                                  Rejected("TimeoutError")),
                             TimeoutError))

Next ==
    \/ Start
    \/ Stop
    \/ SetBaudRateResolved
    \/ SetBaudRateRejected
    \/ WriteResolved
    \/ WriteRejected
    \/ HandleSerialData
    \/ TakeTimeout

Spec == Init /\ [][Next]_vars

(* ------------------ readouts with every punch count --------------------- *)
(* The driver from READY on, with a station that answers it: a Card-6 or   *)
(* Card-10+ detection at READY, to a block request the requested block,    *)
(* whose punch-count byte in block 0 takes every value of a byte, and      *)
(* CARD_REMOVED after the ACK.  A wait of the driver may also time out.    *)

\* the driver after a successful handshake, at its first READY
InitReadout ==
    /\ running = TRUE
    /\ pc = "ready"
    /\ ctx = NoCtx
    /\ queue = <<>>
    /\ waiters = <<"forever">>
    /\ trace = <<Status("READY")>>
    /\ past = {"STARTING", "ON"}
    /\ closed = 0
    /\ call = NoCall
    /\ AccInit

\* the values of a punch-count byte
CountBytes == 0..255

\* the frames the station sends while the driver is in state s
StationFrames(s) ==
    CASE s.pc = "ready" ->
           {Frame(SI_CARD_6_PLUS_DETECTED, TRUE, 0, 0, 0, 0),
            Frame(SI_CARD_8_PLUS_DETECTED, TRUE, SI_CARD_10_PLUS_SERIES, 0, 0, 0)}
      [] s.pc = "take" /\ s.ctx.at = "read" /\ s.ctx.i = 1 ->
           IF s.ctx.card = "SiCard 6"
           THEN {Frame(GET_SI_CARD_6_BN, TRUE, 0, 0, n, 0) : n \in CountBytes}
           ELSE {Frame(GET_SI_CARD_8_PLUS_BN, TRUE, 0, 0, 0, n) : n \in CountBytes}
      [] s.pc = "take" /\ s.ctx.at = "read" /\ s.ctx.i > 1 ->
           {Frame(CommandByte(Commands(s.ctx.card)[s.ctx.i]), TRUE, 0, 0, 0, 0)}
      [] s.pc = "take" /\ s.ctx.at = "ack" ->
           {Frame(SI_CARD_REMOVED, TRUE, 0, 0, 0, 0)}
      [] OTHER -> {}

\* handleSerialData() completes a frame of the station
StationAnswers ==
    \E msg \in StationFrames(Cur) : Becomes(Push(Cur, msg))

NextReadout ==
    \/ StationAnswers
    \/ WriteResolved
    \/ TakeTimeout

SpecReadout == InitReadout /\ [][NextReadout]_vars


(* --------------------------- course validation -------------------------- *)
(* src/src/course-validator/validator.ts.  A punch is [code, timestampMs], *)
(* a course is [controls, isInline]; the name and the start-time fields of *)
(* a course are not read by the validation.  Arrays are sequences, so the  *)
(* code's index i is i + 1 here.                                           *)

NO_TIME == -1

\* longest course of a validation input
MaxControls == 3

\* longest punch list of a validation input
MaxPunches == 4

\* longest course list of an auto-detect input
MaxCourses == 2

SeqsUpTo(S, n) == UNION {[1..k -> S] : k \in 0..n}

Min3(a, b, c) == Min(a, Min(b, c))

\* expected.includes(code)
Includes(expected, code) == \E i \in 1..Len(expected) : expected[i] = code

\* validateInline(): the punches whose code is on the course
RelevantPunches(expected, punches) ==
    SelectSeq(punches, LAMBDA p : Includes(expected, p.code))

\* mutant of LevRow: a substitution costs 1 whether the codes agree or not
RECURSIVE LevRowAlwaysSubstitute(_, _, _, _, _)
LevRowAlwaysSubstitute(expected, rel, prev, i, acc) ==
    IF Len(acc) = Len(rel) + 1
    THEN acc
    ELSE LET j == Len(acc) - 1
         IN  LevRowAlwaysSubstitute(expected, rel, prev, i,
                    Append(acc, Min3(1 + acc[j + 1], 1 + prev[j + 2], 1 + prev[j + 1])))

\* validateInline(): row i + 1 of the Levenshtein matrix from row i (prev),
\* filled from the left; acc holds matrix[i + 1][0 .. Len(acc) - 1]
RECURSIVE LevRow(_, _, _, _, _)
LevRow(expected, rel, prev, i, acc) ==
    IF Len(acc) = Len(rel) + 1
    THEN acc
    ELSE LET j == Len(acc) - 1
             cost == IF expected[i + 1] = rel[j + 1].code THEN 0 ELSE 1
         IN  LevRow(expected, rel, prev, i,
                    Append(acc, Min3(1 + acc[j + 1], 1 + prev[j + 2], cost + prev[j + 1])))

\* validateInline(): the matrix, rows 0 .. m, each with columns 0 .. n
RECURSIVE LevMatrix(_, _, _)
LevMatrix(expected, rel, rows) ==
    IF Len(rows) = Len(expected) + 1
    THEN rows
    ELSE LET i == Len(rows) - 1
         IN  LevMatrix(expected, rel,
                       Append(rows, LevRow(expected, rel, rows[i + 1], i, <<i + 1>>)))

\* matrix[i][j]
At(matrix, i, j) == matrix[i + 1][j + 1]

ControlResult(expectedCode, found, timestampMs) ==
    [expectedCode |-> expectedCode, found |-> found, timestampMs |-> timestampMs]

\* existsCodeFrom()
ExistsCodeFrom(code, punches, fromIndex) ==
    \E j \in fromIndex..(Len(punches) - 1) : punches[j + 1].code = code

\* mutant of OkPm: the controls left over when the punches run out are
\* not reported
RECURSIVE OkPmNoRemainder(_, _, _, _, _, _)
OkPmNoRemainder(expected, rel, matrix, i, j, res) ==
    LET m == Len(expected)
        n == Len(rel)
        totalCost == At(matrix, m, n)
        missing == Append(res, ControlResult(expected[i + 1], FALSE, NO_TIME))
    IN  IF i < m /\ j < n
        THEN IF At(matrix, i + 1, j + 1) = At(matrix, i, j)
             THEN OkPmNoRemainder(expected, rel, matrix, i + 1, j + 1,
                       Append(res, ControlResult(expected[i + 1], TRUE, rel[j + 1].timestampMs)))
             ELSE IF ~ExistsCodeFrom(expected[i + 1], rel, j + 1)
             THEN OkPmNoRemainder(expected, rel, matrix, i + 1, j, missing)
             ELSE IF At(matrix, i, j + 1) > totalCost
             THEN OkPmNoRemainder(expected, rel, matrix, i + 1, j, missing)
             ELSE OkPmNoRemainder(expected, rel, matrix, i, j + 1, res)
        ELSE res

\* mutant of OkPm: a punch is never skipped while the control is looked
\* for further on
RECURSIVE OkPmNoSkip(_, _, _, _, _, _)
OkPmNoSkip(expected, rel, matrix, i, j, res) ==
    LET m == Len(expected)
        n == Len(rel)
        missing == Append(res, ControlResult(expected[i + 1], FALSE, NO_TIME))
    IN  IF i < m /\ j < n
        THEN IF At(matrix, i + 1, j + 1) = At(matrix, i, j)
             THEN OkPmNoSkip(expected, rel, matrix, i + 1, j + 1,
                       Append(res, ControlResult(expected[i + 1], TRUE, rel[j + 1].timestampMs)))
             ELSE OkPmNoSkip(expected, rel, matrix, i + 1, j, missing)
        ELSE IF i < m
        THEN OkPmNoSkip(expected, rel, matrix, i + 1, j, missing)
        ELSE res

\* mutant of OkPm: a control without a later punch is reported missing and
\* the current punch is dropped with it
RECURSIVE OkPmMissConsumes(_, _, _, _, _, _)
OkPmMissConsumes(expected, rel, matrix, i, j, res) ==
    LET m == Len(expected)
        n == Len(rel)
        totalCost == At(matrix, m, n)
        missing == Append(res, ControlResult(expected[i + 1], FALSE, NO_TIME))
    IN  IF i < m /\ j < n
        THEN IF At(matrix, i + 1, j + 1) = At(matrix, i, j)
             THEN OkPmMissConsumes(expected, rel, matrix, i + 1, j + 1,
                       Append(res, ControlResult(expected[i + 1], TRUE, rel[j + 1].timestampMs)))
             ELSE IF ~ExistsCodeFrom(expected[i + 1], rel, j + 1)
             THEN OkPmMissConsumes(expected, rel, matrix, i + 1, j + 1, missing)
             ELSE IF At(matrix, i, j + 1) > totalCost
             THEN OkPmMissConsumes(expected, rel, matrix, i + 1, j, missing)
             ELSE OkPmMissConsumes(expected, rel, matrix, i, j + 1, res)
        ELSE IF i < m
        THEN OkPmMissConsumes(expected, rel, matrix, i + 1, j, missing)
        ELSE res

\* validateInline(): the two trace-back loops, from position (i, j)
RECURSIVE OkPm(_, _, _, _, _, _)
OkPm(expected, rel, matrix, i, j, res) ==
    LET m == Len(expected)
        n == Len(rel)
        totalCost == At(matrix, m, n)
        missing == Append(res, ControlResult(expected[i + 1], FALSE, NO_TIME))
    IN  IF i < m /\ j < n
        THEN IF At(matrix, i + 1, j + 1) = At(matrix, i, j)
             THEN OkPm(expected, rel, matrix, i + 1, j + 1,
                       Append(res, ControlResult(expected[i + 1], TRUE, rel[j + 1].timestampMs)))
             ELSE IF ~ExistsCodeFrom(expected[i + 1], rel, j + 1)
             THEN OkPm(expected, rel, matrix, i + 1, j, missing)
             ELSE IF At(matrix, i, j + 1) > totalCost
             THEN OkPm(expected, rel, matrix, i + 1, j, missing)
             ELSE OkPm(expected, rel, matrix, i, j + 1, res)
        ELSE IF i < m
        THEN OkPm(expected, rel, matrix, i + 1, j, missing)
        ELSE res

\* mutant of FindExtraControls: applied to the punches that are left after
\* the filtering of validateInline()
FindExtraControlsFiltered(expected, punches) ==
    LET extras == SelectSeq(RelevantPunches(expected, punches),
                            LAMBDA p : ~Includes(expected, p.code))
    IN  [k \in 1..Len(extras) |-> extras[k].code]

\* findExtraControls()
FindExtraControls(expected, punches) ==
    LET extras == SelectSeq(punches, LAMBDA p : ~Includes(expected, p.code))
    IN  [k \in 1..Len(extras) |-> extras[k].code]

\* controlResults.filter((r) => !r.found).length
MissingCount(controlResults) ==
    Cardinality({k \in 1..Len(controlResults) : ~controlResults[k].found})

ValidationResult(course, controlResults, extraControls) ==
    [course |-> course,
     controlResults |-> controlResults,
     missingCount |-> MissingCount(controlResults),
     extraControls |-> extraControls,
     allCorrect |-> MissingCount(controlResults) = 0]

validateInline(course, punches) ==
    LET expected == course.controls
        rel == RelevantPunches(expected, punches)
        matrix == LevMatrix(expected, rel, <<[j \in 1..(Len(rel) + 1) |-> j - 1]>>)
    IN  ValidationResult(course, OkPm(expected, rel, matrix, 0, 0, <<>>),
                         FindExtraControls(expected, punches))

\* mutant of ScoreMap: a punch is not marked as used
RECURSIVE ScoreMapReuse(_, _, _, _, _)
ScoreMapReuse(expected, punches, k, used, res) ==
    IF k > Len(expected)
    THEN res
    ELSE LET hits == {i \in 1..Len(punches) : punches[i].code = expected[k]}
         IN  IF hits = {}
             THEN ScoreMapReuse(expected, punches, k + 1, used,
                           Append(res, ControlResult(expected[k], FALSE, NO_TIME)))
             ELSE LET i == CHOOSE h \in hits : \A g \in hits : h <= g
                  IN  ScoreMapReuse(expected, punches, k + 1, used,
                               Append(res, ControlResult(expected[k], TRUE,
                                                         punches[i].timestampMs)))

\* validateScoreO(): expected.map(...), from control k on; used is the set
\* of indices of the punches that already satisfy a control
RECURSIVE ScoreMap(_, _, _, _, _)
ScoreMap(expected, punches, k, used, res) ==
    IF k > Len(expected)
    THEN res
    ELSE LET hits == {i \in 1..Len(punches) :
                         i \notin used /\ punches[i].code = expected[k]}
         IN  IF hits = {}
             THEN ScoreMap(expected, punches, k + 1, used,
                           Append(res, ControlResult(expected[k], FALSE, NO_TIME)))
             ELSE LET i == CHOOSE h \in hits : \A g \in hits : h <= g
                  IN  ScoreMap(expected, punches, k + 1, used \cup {i},
                               Append(res, ControlResult(expected[k], TRUE,
                                                         punches[i].timestampMs)))

validateScoreO(course, punches) ==
    ValidationResult(course, ScoreMap(course.controls, punches, 1, {}, <<>>),
                     FindExtraControls(course.controls, punches))

\* mutant of Better: a tie on the missing count is left to the earlier course
BetterStrict(result, bestResult) ==
    result.missingCount < bestResult.missingCount

\* autoDetectCourse(): the test that replaces bestResult
Better(result, bestResult) ==
    \/ result.missingCount < bestResult.missingCount
    \/ /\ result.missingCount = bestResult.missingCount
       /\ Len(result.course.controls) > Len(bestResult.course.controls)

\* autoDetectCourse(): one validation of the loop
ValidateOne(course, punches) ==
    IF course.isInline THEN validateInline(course, punches)
    ELSE validateScoreO(course, punches)

\* autoDetectCourse(): the loop from course k on; bestResult is a sequence
\* that is empty for null
RECURSIVE DetectLoop(_, _, _, _)
DetectLoop(courses, punches, k, bestResult) ==
    IF k > Len(courses)
    THEN bestResult
    ELSE LET result == ValidateOne(courses[k], punches)
         IN  IF bestResult = <<>> \/ Better(result, bestResult[1])
             THEN DetectLoop(courses, punches, k + 1, <<result>>)
             ELSE DetectLoop(courses, punches, k + 1, bestResult)

\* what a call yields: a value, or the message of the Error it throws
Returned(value) == [threw |-> FALSE, value |-> value]

Thrown(message) == [threw |-> TRUE, message |-> message]

autoDetectCourse(courses, punches) ==
    IF Len(courses) = 0
    THEN Thrown("No courses defined")
    ELSE Returned(DetectLoop(courses, punches, 1, <<>>)[1])

(* the inputs of the validation *)

\* control codes of the courses, and a code that is on no course
Codes == {31, 32, 33}

OffCourse == 99

\* the j-th punch of a card, punched with the given code
Punch(code, j) == [code |-> code, timestampMs |-> 1000 * j]

PunchLists(codes, n) ==
    {[j \in 1..Len(cs) |-> Punch(cs[j], j)] : cs \in SeqsUpTo(codes, n)}

Course(controls, isInline) == [controls |-> controls, isInline |-> isInline]

\* one course and a card
ValidateInputs ==
    {[fn |-> "validate", course |-> Course(cs, b), punches |-> ps] :
        cs \in SeqsUpTo(Codes, MaxControls), b \in BOOLEAN,
        ps \in PunchLists(Codes \cup {OffCourse}, MaxPunches)}

\* the courses of an event, of both kinds
DetectCourses ==
    {Course(cs, b) :
        cs \in {<<>>, <<31>>, <<31, 32>>, <<32, 31>>, <<31, 32, 33>>}, b \in BOOLEAN}

\* a list of courses and a card
DetectInputs ==
    {[fn |-> "detect", courses |-> cl, punches |-> ps] :
        cl \in SeqsUpTo(DetectCourses, MaxCourses),
        ps \in PunchLists({31, 32}, MaxPunches)}

Idle ==
    /\ running = FALSE
    /\ pc = "idle"
    /\ ctx = NoCtx
    /\ queue = <<>>
    /\ waiters = <<>>
    /\ trace = <<>>
    /\ past = {}
    /\ closed = 0
    /\ AccInit

InitValidator ==
    /\ Idle
    /\ call \in ValidateInputs \cup DetectInputs

ValidateInline ==
    /\ call.fn = "validate"
    /\ call.course.isInline
    /\ call' = [fn |-> "validateInline", course |-> call.course, punches |-> call.punches,
                result |-> validateInline(call.course, call.punches)]
    /\ UNCHANGED <<driver, accumulator>>

ValidateScoreO ==
    /\ call.fn = "validate"
    /\ ~call.course.isInline
    /\ call' = [fn |-> "validateScoreO", course |-> call.course, punches |-> call.punches,
                result |-> validateScoreO(call.course, call.punches)]
    /\ UNCHANGED <<driver, accumulator>>

AutoDetectCourse ==
    /\ call.fn = "detect"
    /\ call' = [fn |-> "autoDetectCourse", courses |-> call.courses,
                punches |-> call.punches,
                result |-> autoDetectCourse(call.courses, call.punches)]
    /\ UNCHANGED <<driver, accumulator>>

NextValidator ==
    \/ ValidateInline
    \/ ValidateScoreO
    \/ AutoDetectCourse

SpecValidator == InitValidator /\ [][NextValidator]_vars

(* ------------------ the validation of the desktop renderer -------------- *)
(* validateInline() of part_004: the filtering, the matrix and the extra   *)
(* controls are computed as in validator.ts, the trace-back has no test    *)
(* of matrix[i][j + 1] against the total cost.                             *)

\* validateInline() of the renderer: the two trace-back loops
RECURSIVE RendererOkPm(_, _, _, _, _, _)
RendererOkPm(expected, relevant, matrix, i, j, cr) ==
    LET m == Len(expected)
        n == Len(relevant)
        missing == Append(cr, ControlResult(expected[i + 1], FALSE, NO_TIME))
    IN  IF i < m /\ j < n
        THEN IF At(matrix, i + 1, j + 1) = At(matrix, i, j)
             THEN RendererOkPm(expected, relevant, matrix, i + 1, j + 1,
                       Append(cr, ControlResult(expected[i + 1], TRUE,
                                                relevant[j + 1].timestampMs)))
             ELSE IF ~ExistsCodeFrom(expected[i + 1], relevant, j + 1)
             THEN RendererOkPm(expected, relevant, matrix, i + 1, j, missing)
             ELSE RendererOkPm(expected, relevant, matrix, i, j + 1, cr)
        ELSE IF i < m
        THEN RendererOkPm(expected, relevant, matrix, i + 1, j, missing)
        ELSE cr

\* validateInline() of the renderer
rendererValidateInline(course, punches) ==
    LET expected == course.controls
        relevant == RelevantPunches(expected, punches)
        matrix == LevMatrix(expected, relevant, <<[j \in 1..(Len(relevant) + 1) |-> j - 1]>>)
    IN  ValidationResult(course, RendererOkPm(expected, relevant, matrix, 0, 0, <<>>),
                         FindExtraControls(expected, punches))

\* an inline course and a card
RendererInputs == {c \in ValidateInputs : c.course.isInline}

InitRenderer ==
    /\ Idle
    /\ call \in RendererInputs

RendererValidateInline ==
    /\ call.fn = "validate"
    /\ call' = [fn |-> "rendererValidateInline", course |-> call.course,
                punches |-> call.punches,
                result |-> rendererValidateInline(call.course, call.punches)]
    /\ UNCHANGED <<driver, accumulator>>

NextRenderer == RendererValidateInline

SpecRenderer == InitRenderer /\ [][NextRenderer]_vars


(* --------------------------- the Card-5 decoder ------------------------- *)
(* src/src/si-protocol/SiDataFrame.ts.  `data' is the buffer                *)
(* message.sequence.subarray(5, 133): a function from the offsets it has;  *)
(* a read past its end yields undefined, which & 0xff makes 0.             *)

NO_SI_TIME == 61166000
TWELVE_HOURS == 43200000
SI5_TIMED_PUNCHES == 30

\* the raw word of a time that was not written (0xEEEE)
NoTimeWord == 61166

\* largest count byte (offset 0x17) of a decoder input
MaxCountByte == 33

\* byteAt(data, i)
DataByteAt(data, i) == IF i \in DOMAIN data THEN data[i] % 256 ELSE 0

\* wordAt(data, i)
WordAt(data, i) == DataByteAt(data, i) * 256 + DataByteAt(data, i + 1)

\* timestampAt(data, i)
TimestampAt(data, i) == 1000 * WordAt(data, i)

\* mutant of AdvanceLoop: the step is added at most once
AdvanceLoopOnce(newTimestamp, baseTime, stepTime) ==
    IF newTimestamp < baseTime THEN newTimestamp + stepTime ELSE newTimestamp

\* advanceTimePast(): while (newTimestamp < baseTime) newTimestamp += stepTime
RECURSIVE AdvanceLoop(_, _, _)
AdvanceLoop(newTimestamp, baseTime, stepTime) ==
    IF newTimestamp < baseTime
    THEN AdvanceLoop(newTimestamp + stepTime, baseTime, stepTime)
    ELSE newTimestamp

\* mutant of AdvanceTimePast: the raw value NO_SI_TIME is advanced like
\* any other
AdvanceTimePastNoSentinel(timestamp, refTime, stepTime) ==
    IF refTime = NO_TIME THEN timestamp
    ELSE AdvanceLoop(timestamp, refTime - 3600000, stepTime)

\* advanceTimePast(): the two early returns are tested once, before the loop
AdvanceTimePast(timestamp, refTime, stepTime) ==
    IF timestamp = NO_SI_TIME THEN NO_TIME
    ELSE IF refTime = NO_TIME THEN timestamp
    ELSE AdvanceLoop(timestamp, refTime - 3600000, stepTime)

\* newRefTime()
NewRefTime(refTime, punchTime) == IF punchTime # NO_TIME THEN punchTime ELSE refTime

\* parseSi5(): offset of timed punch i
Si5Offset(i) == 33 + (i \div 5) * 16 + (i % 5) * 3

\* parseSi5(): the loop over the timed punches, from punch i on
RECURSIVE TimedPunches(_, _, _, _, _)
TimedPunches(data, nbTimed, i, refTime, punches) ==
    IF i >= nbTimed
    THEN punches
    ELSE LET punchTime == AdvanceTimePast(TimestampAt(data, Si5Offset(i) + 1),
                                          refTime, TWELVE_HOURS)
         IN  TimedPunches(data, nbTimed, i + 1, NewRefTime(refTime, punchTime),
                          Append(punches, [code |-> DataByteAt(data, Si5Offset(i)),
                                           timestampMs |-> punchTime]))

\* parseSi5(): the loop over the punches beyond the timed slots
UntimedPunches(data, nbPunches) ==
    IF nbPunches <= SI5_TIMED_PUNCHES
    THEN <<>>
    ELSE [k \in 1..(nbPunches - SI5_TIMED_PUNCHES) |->
             [code |-> DataByteAt(data, 32 + (k - 1) * 16), timestampMs |-> NO_TIME]]

\* parseSi5(), from the data frame on; the card number is left out
ParseSi5(data, zerohour) ==
    LET nbPunches == DataByteAt(data, 23) - 1
        startTime == AdvanceTimePast(TimestampAt(data, 19), zerohour, TWELVE_HOURS)
        checkTime == AdvanceTimePast(TimestampAt(data, 25), zerohour, TWELVE_HOURS)
        nbTimed == Min(nbPunches, SI5_TIMED_PUNCHES)
        timed == TimedPunches(data, nbTimed, 0, NewRefTime(zerohour, startTime), <<>>)
        punches == timed \o UntimedPunches(data, nbPunches)
        lastTimedRef ==
            IF nbTimed > 0
            THEN NewRefTime(NewRefTime(zerohour, startTime), punches[nbTimed].timestampMs)
            ELSE NewRefTime(zerohour, startTime)
    IN  [cardSeries |-> "SiCard 5",
         startTime |-> startTime,
         finishTime |-> AdvanceTimePast(TimestampAt(data, 21), lastTimedRef, TWELVE_HOURS),
         checkTime |-> checkTime,
         punchCount |-> nbPunches,
         punches |-> punches]

(* the inputs of the decoder *)

\* the slot of a timed punch that offset off lies in, -1 if in none
SlotOf(off) ==
    IF \E i \in 0..(SI5_TIMED_PUNCHES - 1) : off - Si5Offset(i) \in 0..2
    THEN CHOOSE i \in 0..(SI5_TIMED_PUNCHES - 1) : off - Si5Offset(i) \in 0..2
    ELSE -1

\* the time word of slot i on a card whose first punch was at word `first',
\* one punch every 400 s on the 12 h clock, and nothing written in slot gap
SlotWord(first, gap, i) ==
    IF i = gap THEN NoTimeWord ELSE (first + 400 * i) % 43200

\* the data block of a Card 5: count byte, start and finish words, and
\* punch slot i holding code 31 + i and its time word; zero elsewhere
Si5Data(count, start, first, gap, finish) ==
    [off \in 0..127 |->
        LET i == SlotOf(off)
        IN  CASE off = 23 -> count
              [] off = 19 -> start \div 256
              [] off = 20 -> start % 256
              [] off = 21 -> finish \div 256
              [] off = 22 -> finish % 256
              [] i >= 0 /\ off = Si5Offset(i) -> 31 + i
              [] i >= 0 /\ off = Si5Offset(i) + 1 -> SlotWord(first, gap, i) \div 256
              [] i >= 0 /\ off = Si5Offset(i) + 2 -> SlotWord(first, gap, i) % 256
              [] OTHER -> 0]

\* what is left of a frame without data: its ETX
\* count byte of the cards with few punches and a finish time
MaxFewCountByte == 4

ShortData == [off \in 0..0 |-> 3]

ZeroHours == {NO_TIME, 0, 36000000}

Si5Inputs ==
    {[fn |-> "decode", data |-> d, zerohour |-> z] :
        d \in {Si5Data(count, start, first, gap, NoTimeWord) :
                  count \in 0..MaxCountByte, start \in {NoTimeWord, 100, 36000},
                  first \in {0, 36060, 43100}, gap \in {-1, 0, 2}}
              \cup {Si5Data(count, start, first, gap, finish) :
                  count \in 0..MaxFewCountByte, start \in {NoTimeWord, 33000, 36000},
                  first \in {30000, 43100}, gap \in {-1, 0, 2},
                  finish \in {36100, 43000}}
              \cup {ShortData},
        z \in ZeroHours}

\* one day, the step of the cards from Card 6 on
ONE_DAY == 2 * TWELVE_HOURS

\* raw times (among them NO_SI_TIME and one that reaches NO_SI_TIME after
\* a step of twelve hours), reference times and steps of advanceTimePast()
AdvanceInputs ==
    {[fn |-> "advance", timestamp |-> raw, refTime |-> ref, stepTime |-> step] :
        raw \in {0, 1000, NO_SI_TIME - TWELVE_HOURS, 43199000, NO_SI_TIME, 86399000},
        ref \in {NO_TIME, 0, 3600000, 3601000, 36000000, 70000000, 90000000, 180000000},
        step \in {TWELVE_HOURS, ONE_DAY}}

InitSi5 ==
    /\ Idle
    /\ call \in Si5Inputs \cup AdvanceInputs

ParseSi5Call ==
    /\ call.fn = "decode"
    /\ call' = [fn |-> "parseSi5", data |-> call.data, zerohour |-> call.zerohour,
                result |-> ParseSi5(call.data, call.zerohour)]
    /\ UNCHANGED <<driver, accumulator>>

AdvanceTimePastCall ==
    /\ call.fn = "advance"
    /\ call' = [fn |-> "advanceTimePast", timestamp |-> call.timestamp,
                refTime |-> call.refTime, stepTime |-> call.stepTime,
                result |-> AdvanceTimePast(call.timestamp, call.refTime, call.stepTime)]
    /\ UNCHANGED <<driver, accumulator>>

NextSi5 ==
    \/ ParseSi5Call
    \/ AdvanceTimePastCall

SpecSi5 == InitSi5 /\ [][NextSi5]_vars

(* ------------------------------ the CRC --------------------------------- *)
(* crc() of part_001 on a buffer, a sequence of bytes.  Reading a Buffer   *)
(* beyond its end gives undefined, which the bit operators take as 0.      *)

POLY == 32773
BITF == 32768

\* longest buffer given to crc()
MaxCrcLen == 3

\* buffer[i], 0 where the buffer has no byte
BufferAt(buffer, i) == IF i >= 0 /\ i < Len(buffer) THEN buffer[i + 1] ELSE 0

\* ((buffer[ptr++] << 8) | (buffer[ptr++] & 0xff)) & 0xffff
WordOf(buffer, ptr) ==
    (BufferAt(buffer, ptr) * 256 + AndFF(BufferAt(buffer, ptr + 1))) % 65536

\* a ^ b on n bits
RECURSIVE Xor(_, _, _)
Xor(a, b, n) ==
    IF n = 0 THEN 0
    ELSE (((a % 2) + (b % 2)) % 2) + 2 * Xor(a \div 2, b \div 2, n - 1)

\* the inner loop of crc(), from bit j on
RECURSIVE CrcBits(_, _, _)
CrcBits(tmp, val, j) ==
    IF j >= 16 THEN tmp
    ELSE LET shifted == (tmp * 2) % 65536
             carried == IF (val \div BITF) % 2 = 1 THEN (shifted + 1) % 65536 ELSE shifted
             next == IF (tmp \div BITF) % 2 = 1 THEN Xor(carried, POLY, 16) ELSE carried
         IN  CrcBits(next, (val * 2) % 65536, j + 1)

\* the outer loop of crc(), for i down to 1
RECURSIVE CrcWords(_, _, _, _)
CrcWords(buffer, tmp, ptr, i) ==
    IF i <= 0 THEN tmp
    ELSE LET count == Len(buffer)
             val == IF i > 1 THEN WordOf(buffer, ptr)
                    ELSE IF count % 2 = 1
                         THEN (BufferAt(buffer, count - 1) * 256) % 65536
                         ELSE 0
         IN  CrcWords(buffer, CrcBits(tmp, val, 0), IF i > 1 THEN ptr + 2 ELSE ptr, i - 1)

\* crc(buffer)
crc(buffer) ==
    LET count == Len(buffer)
        tmp == WordOf(buffer, 0)
    IN  (IF count > 2 THEN CrcWords(buffer, tmp, 2, count \div 2) ELSE tmp) % 65536

\* the bytes of the buffers
CrcBytes == {0, 1, 2, BEEP, 255}

CrcInputs ==
    {[fn |-> "checksum", buffer |-> b] : b \in SeqsUpTo(CrcBytes, MaxCrcLen)}

InitCrc ==
    /\ Idle
    /\ call \in CrcInputs

CrcCall ==
    /\ call.fn = "checksum"
    /\ call' = [fn |-> "crc", buffer |-> call.buffer, result |-> crc(call.buffer)]
    /\ UNCHANGED <<driver, accumulator>>

NextCrc == CrcCall

SpecCrc == InitCrc /\ [][NextCrc]_vars

(* -------------------- the accumulator of serial chunks ------------------ *)
(* handleSerialData() on the bytes of the chunks: the driver has not been  *)
(* started, so no task waits and messageQueue.push() appends to the queue; *)
(* a message is the sequence of its bytes.  `call' holds the last          *)
(* invocation: the chunk, the time since the previous chunk, the bytes     *)
(* accumulated before it and the messages it pushed.                       *)

STX == 2
NAK == 21
ACC_CAPACITY == 139
TIMEOUT_DELAY == 500

\* the latest time at which a chunk arrives
MaxNow == 2503

\* mutant of Stale: a gap of exactly TIMEOUT_DELAY is stale as well
StaleAtLeast(t, last) ==
    t >= last + TIMEOUT_DELAY

\* now > this.lastDataTime + this.TIMEOUT_DELAY
Stale(t, last) ==
    t > last + TIMEOUT_DELAY

\* chunk.copy(...) and accSize += ...: the chunk is appended as far as the
\* buffer has room
Accumulate(buf, chunk) ==
    buf \o SubSeq(chunk, 1, Min(Len(chunk), ACC_CAPACITY - Len(buf)))

\* mutant of CompleteFrame: a single byte is never a message
CompleteFrameNoSingle(buf) ==
    /\ Len(buf) >= 3
    /\ Len(buf) >= AndFF(buf[3]) + 6

\* the two tests of handleSerialData() that lead to dispatchMessage()
CompleteFrame(buf) ==
    \/ Len(buf) = 1 /\ buf[1] # STX
    \/ /\ Len(buf) >= 3
       /\ Len(buf) >= AndFF(buf[3]) + 6

\* two frames of the protocol with their CRC bytes
FrameA == <<STX, GET_SI_CARD_5, 0, GET_SI_CARD_5, 0, 3>>
FrameB == <<STX, BEEP, 1, 2, 20, 10, 3>>

\* the start of a frame that announces n data bytes, longer than the buffer
Long(n) == <<STX, BEEP, n>> \o [i \in 1..(ACC_CAPACITY - 2) |-> 0]

\* the chunks the port delivers: single bytes, whole frames, two frames in
\* one chunk, pieces of a frame, and oversized chunks
Chunks ==
    {<<NAK>>, <<STX>>, FrameA, FrameB, FrameA \o FrameB, FrameB \o FrameA,
     SubSeq(FrameB, 1, 2), SubSeq(FrameB, 1, 4), SubSeq(FrameB, 3, 7),
     SubSeq(FrameB, 5, 7), Long(ACC_CAPACITY - 6), Long(ACC_CAPACITY - 5)}

\* the time between two chunks, around TIMEOUT_DELAY
Gaps == {TIMEOUT_DELAY - 1, TIMEOUT_DELAY, TIMEOUT_DELAY + 1}

InitAcc ==
    /\ Idle
    /\ call = NoCall

\* handleSerialData(chunk), with dispatchMessage()
HandleSerialDataChunk ==
    \E gap \in Gaps, chunk \in Chunks :
        LET t == now + gap
            kept == IF Stale(t, lastDataTime) THEN <<>> ELSE accBuffer
            buf == Accumulate(kept, chunk)
            pushed == IF CompleteFrame(buf) THEN <<buf>> ELSE <<>>
        IN  /\ t <= MaxNow
            /\ now' = t
            /\ lastDataTime' = t
            /\ accBuffer' = IF CompleteFrame(buf) THEN <<>> ELSE buf
            /\ queue' = queue \o pushed
            /\ call' = [fn |-> "handleSerialData", chunk |-> chunk,
                        elapsed |-> t - lastDataTime, before |-> accBuffer,
                        pushed |-> pushed]
            /\ UNCHANGED <<running, pc, ctx, waiters, trace, past, closed>>

NextAcc == HandleSerialDataChunk

SpecAcc == InitAcc /\ [][NextAcc]_vars

(* ------------------------ the queue and its takers ---------------------- *)
(* SiMessageQueue with any number of callers.  A frame is named by the     *)
(* number of its push.  A waiter is the record of its kind and of the      *)
(* promise it settles; its timer is pending as long as it is in the list   *)
(* (push() and clear() call clearTimeout).  `call' holds the callers' side:*)
(* the promises handed out by take() and takeForever(), the number of      *)
(* pushes, the deliveries in the order in which they happened, and the     *)
(* last operation.  The timer of takeForever() has an empty callback.      *)

\* promises handed out, and frames pushed
MaxTakers == 3
MaxPushes == 3

Pending(kind) == [kind |-> kind, state |-> "pending", value |-> 0, waited |-> TRUE]
\* resolve(msg) and reject(err) of a promise: a settled promise stays as it is
ResolvedWith(p, msg) ==
    IF p.state = "pending" THEN [p EXCEPT !.state = "resolved", !.value = msg] ELSE p
RejectedWith(p, err) ==
    IF p.state = "pending" THEN [p EXCEPT !.state = "rejected", !.value = err] ELSE p

\* mutant of PushTo: the frame is queued even when a waiter is served
PushToQueuesToo(q, ws, msg) ==
    IF Len(ws) > 0
    THEN [queue |-> Append(q, msg), waiters |-> Tail(ws), served |-> Head(ws).id]
    ELSE [queue |-> Append(q, msg), waiters |-> ws, served |-> 0]

\* mutant of RemoveWaiter: the expired waiter stays in the list
RemoveWaiterKeeps(ws, k) ==
    ws

\* the timer callback of take(): findIndex and splice(idx, 1)
RemoveWaiter(ws, k) ==
    SubSeq(ws, 1, k - 1) \o SubSeq(ws, k + 1, Len(ws))

\* mutant of PushTo: the waiter that came last is served
PushToNewest(q, ws, msg) ==
    IF Len(ws) > 0
    THEN [queue |-> q, waiters |-> SubSeq(ws, 1, Len(ws) - 1), served |-> ws[Len(ws)].id]
    ELSE [queue |-> Append(q, msg), waiters |-> ws, served |-> 0]

\* push(): the first waiter is shifted and will be resolved, or else the
\* frame is queued
PushTo(q, ws, msg) ==
    IF Len(ws) > 0
    THEN [queue |-> q, waiters |-> Tail(ws), served |-> Head(ws).id]
    ELSE [queue |-> Append(q, msg), waiters |-> ws, served |-> 0]

\* the promises after clear(): reject() of a take() waiter rejects its
\* promise, reject() of a takeForever() waiter is empty
ClearedPromises(ps, ws) ==
    [i \in 1..Len(ps) |->
        IF \E k \in 1..Len(ws) : ws[k].id = i /\ ws[k].kind = "take"
        THEN RejectedWith(ps[i], "Queue cleared")
        ELSE ps[i]]

InitQueue ==
    /\ Idle
    /\ call = [fn |-> "queue", pushed |-> 0, promises |-> <<>>, delivered |-> <<>>,
               last |-> "new", before |-> <<>>]

\* messageQueue.push(msg)
QueuePush ==
    /\ call.fn = "queue"
    /\ call.pushed < MaxPushes
    /\ LET msg == call.pushed + 1
           r == PushTo(queue, waiters, msg)
       IN  /\ queue' = r.queue
           /\ waiters' = r.waiters
           /\ call' = [call EXCEPT
                  !.pushed = msg,
                  !.promises = IF r.served = 0 THEN @
                               ELSE [@ EXCEPT ![r.served] = ResolvedWith(@, msg)],
                  !.delivered = IF r.served = 0 THEN @ ELSE Append(@, <<r.served, msg>>),
                  !.last = "push", !.before = waiters]
    /\ UNCHANGED <<running, pc, ctx, trace, past, closed, accumulator>>

\* take(timeoutMs) and takeForever(): the head of the queue at once, or
\* else a new waiter
QueueTake(kind) ==
    /\ LET id == Len(call.promises) + 1
       IN  IF Len(queue) > 0
           THEN /\ queue' = Tail(queue)
                /\ waiters' = waiters
                /\ call' = [call EXCEPT
                       !.promises = Append(@, [ResolvedWith(Pending(kind), Head(queue))
                                                  EXCEPT !.waited = FALSE]),
                       !.delivered = Append(@, <<id, Head(queue)>>),
                       !.last = kind, !.before = waiters]
           ELSE /\ queue' = queue
                /\ waiters' = Append(waiters, [kind |-> kind, id |-> id])
                /\ call' = [call EXCEPT !.promises = Append(@, Pending(kind)),
                                        !.last = kind, !.before = waiters]
    /\ UNCHANGED <<running, pc, ctx, trace, past, closed, accumulator>>

\* messageQueue.take(timeoutMs)
QueueTakeTimeout ==
    /\ call.fn = "queue"
    /\ Len(call.promises) < MaxTakers
    /\ QueueTake("take")

\* messageQueue.takeForever()
QueueTakeForever ==
    /\ call.fn = "queue"
    /\ Len(call.promises) < MaxTakers
    /\ QueueTake("forever")

\* the timer of a take() waiter expires
QueueTimerExpires ==
    /\ call.fn = "queue"
    /\ \E k \in 1..Len(waiters) :
          /\ waiters[k].kind = "take"
          /\ waiters' = RemoveWaiter(waiters, k)
          /\ call' = [call EXCEPT
                 !.promises = [@ EXCEPT ![waiters[k].id] = RejectedWith(@, "TimeoutError")],
                 !.last = "timer", !.before = waiters]
    /\ UNCHANGED <<running, pc, ctx, queue, trace, past, closed, accumulator>>

\* messageQueue.clear()
QueueClear ==
    /\ call.fn = "queue"
    /\ waiters' = <<>>
    /\ queue' = <<>>
    /\ call' = [call EXCEPT !.promises = ClearedPromises(@, waiters),
                            !.last = "clear", !.before = waiters]
    /\ UNCHANGED <<running, pc, ctx, trace, past, closed, accumulator>>

NextQueue ==
    \/ QueuePush
    \/ QueueTakeTimeout
    \/ QueueTakeForever
    \/ QueueTimerExpires
    \/ QueueClear

SpecQueue == InitQueue /\ [][NextQueue]_vars

\* the timer of a take() that waits expires after timeoutMs
SpecQueueLive == SpecQueue /\ WF_vars(QueueTimerExpires)


(* ------------------------- reading the history -------------------------- *)

\* the history without the stop() calls
Obs == SelectSeq(trace, LAMBDA e : e.kind # "stop")

StopWasCalled == \E k \in 1..Len(trace) : trace[k] = StopCalled

ReadRequests ==
    {Commands(card)[i] : <<card, i>> \in
        {<<c, j>> \in CardTypes \X (1..7) : j <= Len(Commands(c))}}

IsStatus(e) == e.kind = "status"

\* index of the latest READY before position k of T, 0 if there is none
ReadyBefore(T, k) ==
    LET S == {j \in 1..(k - 1) : T[j] = Status("READY")}
    IN  IF S = {} THEN 0 ELSE CHOOSE j \in S : \A i \in S : i <= j

\* position k of T is a failed wait for a readout response: a timeout, or
\* a frame that is not a valid frame of the requested command
ReadWaitFails(T, k) ==
    /\ k >= 2
    /\ T[k - 1].kind = "send"
    /\ T[k - 1].arg \in ReadRequests
    /\ \/ T[k] = Rejected("TimeoutError")
       \/ /\ T[k].kind = "take"
          /\ ~(T[k].frame.ok /\ T[k].frame.cmd = CommandByte(T[k - 1].arg))

\* what the per-card error policy asks for after the failed wait at k
ReadErrorPolicy(T, k) ==
    /\ Len(T) >= k + 3
    /\ T[k + 1] = LogError
    /\ T[k + 2] = Status("PROCESSING_ERROR")
    /\ T[k + 3] = Status("READY")
    /\ \A j \in (ReadyBefore(T, k) + 1)..(k + 3) :
          /\ T[j].kind # "cardRead"
          /\ T[j] # Status("OFF")
          /\ ~(IsStatus(T[j]) /\ T[j].arg = "FATAL_ERROR")
    /\ IF Len(T) = k + 3
       THEN pc = "ready" /\ waiters = <<"forever">>
       ELSE T[k + 4].kind = "take"

\* C1 as claimed: after a Timeout or InvalidMessage inside a read routine
\* the driver logs an ERROR, emits PROCESSING_ERROR, no cardRead for that
\* card, neither FATAL_ERROR nor OFF, then READY, and waits for the next
\* detection.
C1_AsClaimed ==
    \A k \in 1..Len(Obs) : ReadWaitFails(Obs, k) => ReadErrorPolicy(Obs, k)

\* C1 (amended): as long as stop() has not been called, a Timeout or
\* InvalidMessage inside a read routine is followed by an ERROR log,
\* PROCESSING_ERROR and READY, with no cardRead for that card, no
\* FATAL_ERROR and no OFF, and the task waits for the next detection.
C1_ReadErrorPolicy ==
    ~StopWasCalled =>
        \A k \in 1..Len(trace) : ReadWaitFails(trace, k) => ReadErrorPolicy(trace, k)

\* a second Card-6 block timed out and the driver is back at READY
C1_Witness ==
    /\ ~StopWasCalled
    /\ pc = "ready"
    /\ \E k \in 1..Len(trace) :
          /\ ReadWaitFails(trace, k)
          /\ trace[k] = Rejected("TimeoutError")
          /\ trace[k - 1] = Sent("READ_SICARD_6_B6")
          /\ Len(trace) = k + 3


(* ------------------------------- startup -------------------------------- *)

StartupRequests ==
    {"STARTUP_SEQUENCE", "GET_PROTOCOL_CONFIGURATION",
     "GET_CARDBLOCKS_CONFIGURATION", "BEEP_TWICE"}

IsFatal(e) == IsStatus(e) /\ e.arg = "FATAL_ERROR"

\* position k of T lies in the startup path: T starts at start() and no ON
\* comes before k
InStartup(T, k) ==
    /\ k \in 1..Len(T)
    /\ T[1] = Status("STARTING")
    /\ \A j \in 1..(k - 1) : T[j] # Status("ON")

\* the message of configuration byte b, by its bits 0x01 and 0x04
ConfigMessage(b) ==
    IF b % 2 = 0 THEN MsgNoExtended
    ELSE IF (b \div 4) % 2 = 0 THEN MsgNoHandshake
    ELSE "none"

\* T[k] is a take of a startup answer that is not a valid frame of the
\* requested command
BadStartupAnswer(T, k) ==
    /\ k >= 2
    /\ T[k].kind = "take"
    /\ T[k - 1].kind = "send"
    /\ T[k - 1].arg \in StartupRequests
    /\ ~(T[k].frame.ok /\ T[k].frame.cmd = CommandByte(T[k - 1].arg))

\* T[k] is a take of a valid protocol-configuration answer
ConfigAnswer(T, k) ==
    /\ k >= 2
    /\ T[k].kind = "take"
    /\ T[k - 1] = Sent("GET_PROTOCOL_CONFIGURATION")
    /\ T[k].frame.ok
    /\ T[k].frame.cmd = GET_SYSTEM_VALUE

\* the message of the error that the failure at position k of T raises
\* in its startup attempt
FailureMessage(T, k) ==
    CASE T[k] = Rejected("TimeoutError") -> MsgNoAnswer
      [] T[k] \in {Rejected("write"), Rejected("setBaudRate")} -> PortError.message
      [] T[k] = Rejected("Queue cleared") -> QueueCleared.message
      [] BadStartupAnswer(T, k) -> InvalidMessageError.message
      [] ConfigAnswer(T, k) -> ConfigMessage(T[k].frame.b6)
      [] OTHER -> "none"

\* C2: when the startup path fails and stop() was not called, the run ends
\* with exactly one FATAL_ERROR carrying the message of the failure,
\* followed by the closing of the port and by OFF, and no ON, READY,
\* PROCESSING or cardRead was emitted.
C2_StartupFailureFatal ==
    (pc = "done" /\ ~StopWasCalled) =>
        LET n == Len(trace)
        IN  /\ n >= 6
            /\ trace[n] = Status("OFF")
            /\ trace[n - 1] = Closed
            /\ IsFatal(trace[n - 2])
            /\ trace[n - 3] = LogError
            /\ trace[n - 4] = Caught(trace[n - 2].msg)
            /\ trace[n - 2].msg = FailureMessage(trace, n - 5)
            /\ trace[n - 2].msg # "none"
            /\ Cardinality({k \in 1..n : IsFatal(trace[k])}) = 1
            /\ Cardinality({k \in 1..n : trace[k] = Status("OFF")}) = 1
            /\ closed = 1
            /\ past = {}
            /\ \A k \in 1..n :
                  /\ trace[k].kind # "cardRead"
                  /\ trace[k] \notin {Status("ON"), Status("READY"), Status("PROCESSING")}

\* the port refused the 4800 baud rate and the run ended fatally
C2_Witness ==
    /\ pc = "done"
    /\ ~StopWasCalled
    /\ \E k \in 1..(Len(trace) - 1) :
          /\ trace[k] = Baud(LOW_BAUD)
          /\ trace[k + 1] = Rejected("setBaudRate")
    /\ \E k \in 1..Len(trace) : trace[k] = Fatal(PortError.message)

\* C3: the handshake is first run at 38400 baud; 4800 baud is set only
\* after a Timeout of that attempt and the handshake then runs once more;
\* a Timeout of the second attempt ends the run with the high/low baud
\* message; there is no third attempt, and any other failure of the first
\* attempt ends the run without 4800 being set.
C3_BaudFallback ==
    LET T == Obs
        Bauds == {k \in 1..Len(T) : T[k].kind = "setBaudRate"}
        Starts == {k \in 1..Len(T) : T[k] = Sent("STARTUP_SEQUENCE")}
        LowBefore(k) == \E j \in 1..(k - 1) : T[j] = Baud(LOW_BAUD)
    IN  /\ (pc # "idle" /\ T[1] = Status("STARTING")) =>
              (Len(T) >= 2 /\ T[2] = Baud(HIGH_BAUD))
        /\ \A k \in Bauds :
              \/ k = 2 /\ T[k] = Baud(HIGH_BAUD)
              \/ /\ T[k] = Baud(LOW_BAUD)
                 /\ T[k - 1] = Rejected("TimeoutError")
                 /\ InStartup(T, k)
                 /\ {j \in Bauds : j < k} = {2}
        /\ Cardinality(Bauds) <= 2
        /\ Cardinality(Starts) <= 2
        /\ \A k \in Starts : (k - 1) \in Bauds
        /\ \A k \in 1..Len(T) :
              (InStartup(T, k) /\ T[k] = Rejected("TimeoutError")) =>
                  IF ~LowBefore(k)
                  THEN /\ Len(T) >= k + 1
                       /\ T[k + 1] = Baud(LOW_BAUD)
                       /\ Len(T) = k + 1 => pc = "baud"
                       /\ Len(T) > k + 1 =>
                             T[k + 2] \in {Sent("STARTUP_SEQUENCE"), Rejected("setBaudRate")}
                  ELSE /\ Len(T) >= k + 1
                       /\ T[k + 1] = Caught(MsgNoAnswer)
                       /\ pc = "done"
                       /\ ~StopWasCalled => (Len(T) >= k + 3 /\ T[k + 3] = Fatal(MsgNoAnswer))
        /\ \A k \in 1..Len(T) :
              (/\ InStartup(T, k)
               /\ ~LowBefore(k)
               /\ FailureMessage(T, k) \notin {"none", MsgNoAnswer}) =>
                  /\ Len(T) >= k + 1
                  /\ T[k + 1] = Caught(FailureMessage(T, k))
                  /\ pc = "done"
                  /\ \A j \in Bauds : j < k /\ T[j] = Baud(HIGH_BAUD)

\* both attempts timed out and the run ended with the high/low baud message
C3_Witness ==
    /\ ~StopWasCalled
    /\ pc = "done"
    /\ \E k \in 2..Len(trace) :
          /\ trace[k - 1] = Rejected("TimeoutError")
          /\ trace[k] = Caught(MsgNoAnswer)
          /\ \E i \in 1..k : \E j \in 1..k :
                /\ i < j
                /\ trace[i] = Rejected("TimeoutError")
                /\ trace[j] = Baud(LOW_BAUD)
    /\ \E k \in 1..Len(trace) : trace[k] = Fatal(MsgNoAnswer)

\* C4: a valid protocol-configuration answer whose byte 6 lacks bit 0x01
\* ends the run with the extended-protocol message, one that has bit 0x01
\* but lacks bit 0x04 with the handshake-mode message; only with both bits
\* is the cardblocks request sent.  The mismatch is fatal and no baud rate
\* is set after it.
C4_ConfigCheck ==
    LET T == Obs
    IN  \A k \in 1..Len(T) :
          ConfigAnswer(T, k) =>
              LET m == ConfigMessage(T[k].frame.b6)
              IN  IF m = "none"
                  THEN Len(T) >= k + 1 /\ T[k + 1] = Sent("GET_CARDBLOCKS_CONFIGURATION")
                  ELSE /\ Len(T) >= k + 3
                       /\ T[k + 1] = Caught(m)
                       /\ pc = "done"
                       /\ T[Len(T)] = Status("OFF")
                       /\ \A j \in (k + 1)..Len(T) :
                             T[j].kind \notin {"setBaudRate", "send", "take"}
                       /\ ~StopWasCalled =>
                             (T[k + 2] = LogError /\ T[k + 3] = Fatal(m))

\* byte 6 = 0x01 at 38400 baud: fatal with the handshake-mode message
C4_Witness ==
    /\ ~StopWasCalled
    /\ \E k \in 1..Len(trace) :
          /\ ConfigAnswer(trace, k)
          /\ trace[k].frame.b6 = 1
          /\ ~(\E j \in 1..k : trace[j] = Baud(LOW_BAUD))
    /\ \E k \in 1..Len(trace) : trace[k] = Fatal(MsgNoHandshake)


(* ------------------------------ card reads ------------------------------ *)

\* the number of blocks a readout consists of, from the card type and the
\* punch count in the first block
RequiredBlocks(card, first) ==
    LET groups(nb) == (nb + 31) \div 32
    IN  CASE card = "SiCard 5" -> 1
          [] card = "SiCard 8/9" -> 2
          [] card = "SiCard 6" -> Min(7, 1 + groups(first.b24))
          [] card = "SiCard 10/11/SIAC" -> Min(5, 1 + groups(first.b28))

\* the statuses ever emitted
Ever(status) ==
    \/ status \in past
    \/ \E k \in 1..Len(trace) : trace[k] = Status(status)

\* C5: a cardRead comes after ON, in a cycle that READY opened; between the
\* PROCESSING of that cycle and the cardRead lie exactly the requests of
\* all blocks of the readout, each directly followed by the take of a valid
\* answer of its command; it is the only cardRead of its cycle and no block
\* request follows it before the next READY.
C5_CardReadOrdering ==
    LET T == Obs
    IN  \A k \in 1..Len(T) :
          T[k].kind = "cardRead" =>
              LET r == ReadyBefore(T, k)
                  card == T[k].arg
                  n == T[k].n
              IN  /\ r > 0
                  /\ Ever("ON")
                  /\ \A j \in 1..r : T[j].kind # "cardRead" \/ ReadyBefore(T, j) < r
                  /\ T[r + 1].kind = "take"
                  /\ T[r + 2] = Status("PROCESSING")
                  /\ k = r + 3 + 2 * n
                  /\ n = RequiredBlocks(card, T[r + 4].frame)
                  /\ \A i \in 1..n :
                        /\ T[r + 1 + 2 * i] = Sent(Commands(card)[i])
                        /\ T[r + 2 + 2 * i].kind = "take"
                        /\ T[r + 2 + 2 * i].frame.ok
                        /\ T[r + 2 + 2 * i].frame.cmd = CommandByte(Commands(card)[i])
                  /\ \A j \in (r + 1)..(k - 1) : T[j].kind # "cardRead"
                  /\ \A j \in (k + 1)..Len(T) :
                        (ReadyBefore(T, j) = r) =>
                            /\ T[j].kind # "cardRead"
                            /\ T[j].kind = "send" => T[j].arg = "ACK_SEQUENCE"

\* a Card-6 with one punch was read: two blocks, then cardRead
C5_Witness ==
    \E k \in 1..Len(trace) :
        /\ trace[k] = CardRead("SiCard 6", 2)
        /\ trace[k - 1].kind = "take"
        /\ trace[k - 2] = Sent("READ_SICARD_6_B6")

(* --------------------------- status sequence ---------------------------- *)

Statuses == SelectSeq(trace, IsStatus)

Emitted == SelectSeq(trace, LAMBDA e : e.kind \in {"status", "cardRead"})

\* C7: STARTING is the first event of a run and occurs once; ON occurs at
\* most once and before any READY; the task waits at the top of the loop
\* only directly after READY; the status before a PROCESSING is READY; the
\* status before a PROCESSING_ERROR is PROCESSING; OFF occurs at most once
\* and no status or cardRead follows it.
C7_StatusSequence ==
    LET St == Statuses
    IN  /\ pc = "idle" => trace = <<>> /\ past = {}
        /\ pc # "idle" =>
              /\ Len(St) >= 1
              /\ \/ trace[1] = Status("STARTING") /\ past = {}
                 \/ trace[1] = Status("READY") /\ "STARTING" \in past
              /\ \A i \in 2..Len(St) : St[i] # Status("STARTING")
        /\ \A i \in 1..Len(St) :
              /\ St[i] = Status("ON") =>
                    /\ past = {}
                    /\ \A j \in 1..(i - 1) : St[j] \notin {Status("ON"), Status("READY")}
              /\ St[i] = Status("READY") =>
                    ("ON" \in past \/ \E j \in 1..(i - 1) : St[j] = Status("ON"))
              /\ St[i] = Status("PROCESSING") => (i > 1 /\ St[i - 1] = Status("READY"))
              /\ St[i] = Status("PROCESSING_ERROR") =>
                    (i > 1 /\ St[i - 1] = Status("PROCESSING"))
        /\ pc = "ready" =>
              \E k \in 1..Len(trace) :
                  /\ trace[k] = Status("READY")
                  /\ \A j \in (k + 1)..Len(trace) : trace[j] = StopCalled
        /\ "OFF" \notin past
        /\ \A i \in 1..Len(Emitted) : Emitted[i] = Status("OFF") => i = Len(Emitted)

\* a run that read a card, failed on another and was stopped: all seven
\* kinds of status but FATAL_ERROR occurred
C7_Witness ==
    /\ pc = "done"
    /\ {"STARTING", "ON", "READY", "PROCESSING", "PROCESSING_ERROR", "cardRead"} \subseteq
          (past \cup Marks(trace))
    /\ trace[Len(trace)] = Status("OFF")

(* ------------------------------ handshake ------------------------------- *)

ValidAnswer(e, command) == e.kind = "take" /\ e.frame.ok /\ e.frame.cmd = command

BothBits(b) == b % 2 = 1 /\ (b \div 4) % 2 = 1

\* C9: ON directly follows the complete handshake of one attempt, and each
\* request of the handshake directly follows the accepted answer to the
\* request before it.
C9_OnAfterHandshake ==
    LET T == Obs
    IN  \A k \in 1..Len(T) :
          /\ T[k] = Status("ON") => (k > 1 /\ T[k - 1] = Sent("BEEP_TWICE"))
          /\ T[k] = Sent("BEEP_TWICE") =>
                /\ k > 2
                /\ ValidAnswer(T[k - 1], GET_SYSTEM_VALUE)
                /\ T[k - 2] = Sent("GET_CARDBLOCKS_CONFIGURATION")
          /\ T[k] = Sent("GET_CARDBLOCKS_CONFIGURATION") =>
                /\ k > 2
                /\ ValidAnswer(T[k - 1], GET_SYSTEM_VALUE)
                /\ BothBits(T[k - 1].frame.b6)
                /\ T[k - 2] = Sent("GET_PROTOCOL_CONFIGURATION")
          /\ T[k] = Sent("GET_PROTOCOL_CONFIGURATION") =>
                /\ k > 2
                /\ ValidAnswer(T[k - 1], SET_MASTER_MODE)
                /\ T[k - 2] = Sent("STARTUP_SEQUENCE")
          /\ T[k] = Sent("STARTUP_SEQUENCE") =>
                (k > 1 /\ T[k - 1].kind = "setBaudRate")

\* ON was emitted on the second attempt, at 4800 baud
C9_Witness ==
    \E k \in 1..Len(trace) :
        /\ trace[k] = Status("ON")
        /\ \E j \in 1..k : trace[j] = Baud(LOW_BAUD)


(* ----------------------------- cancellation ----------------------------- *)

\* the start() task is suspended on a wait that no waiter of the queue
\* stands for: no frame and no timer resumes it
Stranded == pc \in {"ready", "take"} /\ waiters = <<>>

\* C6: once stop() was called the running flag is false, the task is not
\* left suspended on a wait that stop() did not wake, and when it has
\* unwound the port was closed and OFF was the last event.
C6_Cancellation ==
    StopWasCalled =>
        /\ running = FALSE
        /\ ~Stranded
        /\ pc = "done" =>
              (closed >= 1 /\ trace[Len(trace)] = Status("OFF"))

(* ------------------------------ PROCESSING ------------------------------ *)

DetectionCommands ==
    {SI_CARD_5_DETECTED, SI_CARD_6_PLUS_DETECTED, SI_CARD_8_PLUS_DETECTED}

\* C8: every PROCESSING directly follows the take of a card-detection
\* frame (command 0xE5, 0xE6 or 0xE8).
C8_ProcessingMeansDetection ==
    \A k \in 1..Len(trace) :
        trace[k] = Status("PROCESSING") =>
            /\ k > 1
            /\ trace[k - 1].kind = "take"
            /\ trace[k - 1].frame.cmd \in DetectionCommands

(* ----------------------------- port failure ----------------------------- *)

PortRejected(e) == e = Rejected("write") \/ e = Rejected("setBaudRate")

\* C10: in a run where stop() was not called, every rejection of
\* port.write() or port.setBaudRate() is followed by FATAL_ERROR and OFF,
\* and by neither PROCESSING_ERROR nor READY.
C10_PortFailureFatal ==
    ~StopWasCalled =>
        \A k \in 1..Len(trace) :
            PortRejected(trace[k]) =>
                /\ \E j \in (k + 1)..Len(trace) : IsFatal(trace[j])
                /\ trace[Len(trace)] = Status("OFF")
                /\ \A j \in (k + 1)..Len(trace) :
                      trace[j] \notin {Status("PROCESSING_ERROR"), Status("READY")}


(* ------------------------------ short data ------------------------------ *)

\* the frame ends before the 128 data bytes a decoder reads from it
Short(f) == ByteAt(f, 28) = NoByte

\* C11: when the take that answers a read request yields a valid frame of
\* the requested command that is short of data, an ERROR log and
\* PROCESSING_ERROR follow directly, and no cardRead follows in that cycle.
C11_ShortDataIsError ==
    \A k \in 2..Len(trace) :
        (/\ trace[k].kind = "take"
         /\ trace[k - 1].kind = "send"
         /\ trace[k - 1].arg \in ReadRequests
         /\ Check(trace[k].frame, CommandByte(trace[k - 1].arg))
         /\ Short(trace[k].frame)) =>
            /\ Len(trace) >= k + 2
            /\ trace[k + 1] = LogError
            /\ trace[k + 2] = Status("PROCESSING_ERROR")
            /\ \A j \in (k + 1)..Len(trace) : trace[j].kind # "cardRead"


(* ---------------------------- validation results ------------------------ *)

\* validateInline or validateScoreO was applied to call.course, call.punches
Validated == call.fn \in {"validateInline", "validateScoreO"}

\* the codes of a list of punches
CodesOf(punches) == [j \in 1..Len(punches) |-> punches[j].code]

\* the set of values of a sequence
Range(seq) == {seq[k] : k \in 1..Len(seq)}

\* C12: the result of validateInline and of validateScoreO has one control
\* result per course control, in course order and for that control; the
\* missing count is the number of results not found; all_correct is
\* missing count = 0; a result not found carries NO_TIME.
C12_ResultInvariants ==
    Validated =>
        LET r == call.result
            controls == call.course.controls
            notFound == {k \in 1..Len(r.controlResults) : ~r.controlResults[k].found}
        IN  /\ Len(r.controlResults) = Len(controls)
            /\ \A k \in 1..Len(controls) : r.controlResults[k].expectedCode = controls[k]
            /\ r.missingCount = Cardinality(notFound)
            /\ r.allCorrect <=> (r.missingCount = 0)
            /\ \A k \in notFound : r.controlResults[k].timestampMs = NO_TIME

\* an inline validation of a three-control course that left the trace-back
\* loop early: the first control found, the others missing
C12_Witness ==
    /\ call.fn = "validateInline"
    /\ Len(call.course.controls) = 3
    /\ Len(call.punches) = 1
    /\ call.result.controlResults[1].found
    /\ call.result.missingCount = 2

\* the positions of the punches whose code is on none of the controls
OffCoursePositions(controls, punches) ==
    {j \in 1..Len(punches) : punches[j].code \notin Range(controls)}

\* the k-th smallest element of a set of numbers
Nth(S, k) == CHOOSE j \in S : Cardinality({i \in S : i <= j}) = k

\* the extra controls as the specification defines them
ExpectedExtras(controls, punches) ==
    LET P == OffCoursePositions(controls, punches)
    IN  [k \in 1..Cardinality(P) |-> punches[Nth(P, k)].code]

\* C13: extra_controls of an inline and of a score validation is the list
\* of the codes of the punches (of the unfiltered list) whose code is not a
\* control of the course, in punch order, repetitions kept; no code of the
\* course is in it.
C13_ExtraControls ==
    Validated =>
        /\ call.result.extraControls = ExpectedExtras(call.course.controls, call.punches)
        /\ Range(call.result.extraControls) \cap Range(call.course.controls) = {}

\* the off-course code punched twice around a punch of the course
C13_Witness ==
    /\ Validated
    /\ CodesOf(call.punches) = <<OffCourse, 31, OffCourse>>
    /\ call.course.controls = <<31>>
    /\ call.result.extraControls = <<OffCourse, OffCourse>>

\* a occurs in b in order: as a subsequence
RECURSIVE IsSubsequence(_, _)
IsSubsequence(a, b) ==
    IF a = <<>> THEN TRUE
    ELSE IF b = <<>> THEN FALSE
    ELSE IF Head(a) = Head(b) THEN IsSubsequence(Tail(a), Tail(b))
    ELSE IsSubsequence(a, Tail(b))

\* C14: when the controls of the course occur in order as a subsequence of
\* the punch codes, validateInline returns all_correct = true.
C14_InlineAllowsExtras ==
    (/\ call.fn = "validateInline"
     /\ IsSubsequence(call.course.controls, CodesOf(call.punches))) =>
        call.result.allCorrect

\* the course punched in order with an off-course and an on-course punch
\* in between
C14_Witness ==
    /\ call.fn = "validateInline"
    /\ call.course.controls = <<31, 32>>
    /\ CodesOf(call.punches) = <<31, OffCourse, 31, 32>>
    /\ call.result.allCorrect


\* C15: an inline course validated against punches whose codes are the
\* controls of the course in order: all correct, no extra control, and the
\* i-th control result carries the timestamp of the i-th punch.
C15_InlineRoundTrip ==
    (/\ call.fn = "validateInline"
     /\ CodesOf(call.punches) = call.course.controls) =>
        /\ call.result.allCorrect
        /\ call.result.extraControls = <<>>
        /\ \A i \in 1..Len(call.punches) :
              call.result.controlResults[i].timestampMs = call.punches[i].timestampMs

\* the round trip of a course that visits a control twice
C15_Witness ==
    /\ call.fn = "validateInline"
    /\ call.course.controls = <<31, 32, 31>>
    /\ CodesOf(call.punches) = <<31, 32, 31>>
    /\ call.result.controlResults[3] = ControlResult(31, TRUE, 3000)

\* seq without its k-th element
Without(seq, k) == SubSeq(seq, 1, k - 1) \o SubSeq(seq, k + 1, Len(seq))

Distinct(seq) == Cardinality(Range(seq)) = Len(seq)

\* C16: an inline course of distinct codes punched in order with control k
\* left out: control k is not found and carries NO_TIME, one control is
\* missing, not all correct, and every other control is found with the
\* timestamp of its own punch.
C16_InlineOneOmitted ==
    \A k \in 1..MaxControls :
        (/\ call.fn = "validateInline"
         /\ Distinct(call.course.controls)
         /\ k <= Len(call.course.controls)
         /\ CodesOf(call.punches) = Without(call.course.controls, k)) =>
            LET res == call.result.controlResults
            IN  /\ res[k] = ControlResult(call.course.controls[k], FALSE, NO_TIME)
                /\ call.result.missingCount = 1
                /\ ~call.result.allCorrect
                /\ \A i \in 1..(k - 1) :
                      res[i].found /\ res[i].timestampMs = call.punches[i].timestampMs
                /\ \A i \in (k + 1)..Len(res) :
                      res[i].found /\ res[i].timestampMs = call.punches[i - 1].timestampMs

\* the middle control of three left out
C16_Witness ==
    /\ call.fn = "validateInline"
    /\ call.course.controls = <<31, 32, 33>>
    /\ CodesOf(call.punches) = <<31, 33>>
    /\ call.result.controlResults[3] = ControlResult(33, TRUE, 2000)

\* the positions at which seq holds x
Occurrences(seq, x) == {i \in 1..Len(seq) : seq[i] = x}

\* C17: in a score validation the r-th occurrence of a code in the course
\* is found iff the code is punched at least r times, and then carries the
\* timestamp of the r-th punch of that code; all correct iff every code is
\* punched at least as often as the course holds it.
C17_ScoreMultiset ==
    call.fn = "validateScoreO" =>
        LET controls == call.course.controls
            codes == CodesOf(call.punches)
            res == call.result.controlResults
        IN  /\ \A k \in 1..Len(controls) :
                  LET r == Cardinality({i \in Occurrences(controls, controls[k]) : i <= k})
                      P == Occurrences(codes, controls[k])
                  IN  IF r <= Cardinality(P)
                      THEN res[k].found
                           /\ res[k].timestampMs = call.punches[Nth(P, r)].timestampMs
                      ELSE ~res[k].found /\ res[k].timestampMs = NO_TIME
            /\ call.result.allCorrect <=>
                  \A c \in Range(controls) :
                      Cardinality(Occurrences(codes, c)) >= Cardinality(Occurrences(controls, c))

\* a control that the course holds twice and the card once, punched after
\* another control: its first occurrence is found, its second missed
C17_Witness ==
    /\ call.fn = "validateScoreO"
    /\ call.course.controls = <<31, 32, 31>>
    /\ CodesOf(call.punches) = <<32, 31>>
    /\ call.result.controlResults =
          <<ControlResult(31, TRUE, 2000), ControlResult(32, TRUE, 1000),
            ControlResult(31, FALSE, NO_TIME)>>

\* the validation of the k-th course of the call, in the course's mode
ResultOf(k) ==
    IF call.courses[k].isInline
    THEN validateInline(call.courses[k], call.punches)
    ELSE validateScoreO(call.courses[k], call.punches)

\* course k is a best one: no course misses fewer controls, and none that
\* misses as few has more controls
Best(k) ==
    \A i \in 1..Len(call.courses) :
        /\ ResultOf(i).missingCount >= ResultOf(k).missingCount
        /\ ResultOf(i).missingCount = ResultOf(k).missingCount =>
              Len(call.courses[i].controls) <= Len(call.courses[k].controls)

\* C18: autoDetectCourse fails with 'No courses defined' on an empty list;
\* otherwise it returns the validation, in the course's own mode, of the
\* first course of the list among those that miss the fewest controls and,
\* of these, have the most controls.
C18_AutoDetect ==
    call.fn = "autoDetectCourse" =>
        IF call.courses = <<>>
        THEN call.result = Thrown("No courses defined")
        ELSE /\ ~call.result.threw
             /\ \E k \in 1..Len(call.courses) :
                   /\ Best(k)
                   /\ \A i \in 1..(k - 1) : ~Best(i)
                   /\ call.result.value = ResultOf(k)

\* two courses miss nothing; the longer one, second in the list, is returned
C18_Witness ==
    /\ call.fn = "autoDetectCourse"
    /\ call.courses = <<Course(<<31>>, TRUE), Course(<<31, 32>>, FALSE)>>
    /\ CodesOf(call.punches) = <<32, 31>>
    /\ ~call.result.threw
    /\ call.result.value.course = Course(<<31, 32>>, FALSE)
    /\ call.result.value.missingCount = 0


(* ---------------------------- Card-5 decoding --------------------------- *)

\* C19: the record decoded from a Card-5 block holds as many punches as its
\* punch count, which is the count byte minus 1; the first min(count, 30)
\* come from the timed slots and those beyond 30 carry NO_TIME.
C19_Si5PunchCount ==
    call.fn = "parseSi5" =>
        LET r == call.result
        IN  /\ r.punchCount = DataByteAt(call.data, 23) - 1
            /\ Len(r.punches) = r.punchCount
            /\ \A k \in 1..Len(r.punches) :
                  IF k <= SI5_TIMED_PUNCHES
                  THEN r.punches[k].code = DataByteAt(call.data, Si5Offset(k - 1))
                  ELSE r.punches[k].timestampMs = NO_TIME

\* the card and the zero hour of C20: at most 30 punches, a valid zero hour
TimedCard ==
    /\ call.fn = "parseSi5"
    /\ call.result.punchCount <= SI5_TIMED_PUNCHES
    /\ call.zerohour >= 0

\* C20 as claimed: every punch of such a card carries a non-negative
\* timestamp.
C20_AsClaimed ==
    TimedCard =>
        \A k \in 1..Len(call.result.punches) : call.result.punches[k].timestampMs >= 0

\* C20: a punch of such a card carries NO_TIME exactly when its slot holds
\* the time word 0xEEEE; every other punch carries a non-negative timestamp
\* that is a whole number of 12 h steps above the slot's time.
C20_TimedPunchesResolved ==
    TimedCard =>
        \A k \in 1..Len(call.result.punches) :
            LET raw == WordAt(call.data, Si5Offset(k - 1) + 1)
                ts == call.result.punches[k].timestampMs
            IN  IF raw = NoTimeWord
                THEN ts = NO_TIME
                ELSE ts >= 0 /\ ts >= 1000 * raw /\ (ts - 1000 * raw) % TWELVE_HOURS = 0

\* three punches decoded at a zero hour of 10:00: the first advanced by
\* 12 h, the third without a written time
C20_Witness ==
    /\ TimedCard
    /\ call.zerohour = 36000000
    /\ Len(call.result.punches) = 3
    /\ call.result.punches[1].timestampMs = TWELVE_HOURS
    /\ call.result.punches[3].timestampMs = NO_TIME


(* --------------------------- main-loop dispatch ------------------------- *)

\* the positions of T after k that lie before the READY that follows k
CycleOf(T, k) == {j \in (k + 1)..Len(T) : ReadyBefore(T, j) = k}

Card10PlusRequests ==
    {SICARD_10_PLUS_READOUT_COMMANDS[i] : i \in 2..Len(SICARD_10_PLUS_READOUT_COMMANDS)}

\* C23: after READY, the take of a frame and PROCESSING: a frame of command
\* 0xE5 is followed by the Read-Card-5 request, one of 0xE6 by the Card-6
\* block-0 request, one of 0xE8 by the Card-8+ block-0 request, after which
\* only Card-10+ blocks are requested when byte 5 of the frame is 0x0F and
\* only block 1 otherwise; after any other frame nothing is sent and no
\* cardRead is emitted before the next READY.
C23_MainLoopDispatch ==
    LET T == Obs
    IN  \A k \in 1..(Len(T) - 2) :
          (/\ T[k] = Status("READY")
           /\ T[k + 1].kind = "take"
           /\ T[k + 2] = Status("PROCESSING")) =>
              LET f == T[k + 1].frame
                  later == {j \in CycleOf(T, k) : j > k + 3 /\ T[j].kind = "send"}
              IN  CASE f.cmd = SI_CARD_5_DETECTED ->
                         Len(T) >= k + 3 /\ T[k + 3] = Sent("READ_SICARD_5")
                    [] f.cmd = SI_CARD_6_PLUS_DETECTED ->
                         Len(T) >= k + 3 /\ T[k + 3] = Sent("READ_SICARD_6_B0")
                    [] f.cmd = SI_CARD_8_PLUS_DETECTED ->
                         /\ Len(T) >= k + 3
                         /\ T[k + 3] = Sent("READ_SICARD_8_PLUS_B0")
                         /\ IF f.b5 = SI_CARD_10_PLUS_SERIES
                            THEN \A j \in later :
                                    T[j].arg \in Card10PlusRequests \cup {"ACK_SEQUENCE"}
                            ELSE /\ \A j \in later :
                                       T[j].arg \in {"READ_SICARD_8_PLUS_B1", "ACK_SEQUENCE"}
                                 /\ (/\ Len(T) >= k + 5
                                     /\ ValidAnswer(T[k + 4], GET_SI_CARD_8_PLUS_BN)) =>
                                        T[k + 5] = Sent("READ_SICARD_8_PLUS_B1")
                    [] OTHER ->
                         \A j \in CycleOf(T, k) : T[j].kind \notin {"send", "cardRead"}

\* a Card-8+ detection of series 2 whose block 0 announces a punch was
\* continued with block 1
C23_Witness ==
    \E k \in 1..(Len(trace) - 4) :
        /\ trace[k] = Taken(Frame(SI_CARD_8_PLUS_DETECTED, TRUE, 2, 0, 0, 0))
        /\ trace[k + 1] = Status("PROCESSING")
        /\ trace[k + 3] = Taken(Frame(GET_SI_CARD_8_PLUS_BN, TRUE, 0, 0, 0, 1))
        /\ trace[k + 4] = Sent("READ_SICARD_8_PLUS_B1")

(* --------------------------- request / response ------------------------- *)

\* position k of T is the take of a frame that does not answer the read
\* request sent at k - 1
WrongAnswer(T, k) ==
    /\ k >= 2
    /\ T[k].kind = "take"
    /\ T[k - 1].kind = "send"
    /\ T[k - 1].arg \in ReadRequests
    /\ ~(T[k].frame.ok /\ T[k].frame.cmd = CommandByte(T[k - 1].arg))

\* position k of T is the take of a valid frame of the command of the read
\* request sent at k - 1
RightAnswer(T, k) ==
    /\ k >= 2
    /\ T[k - 1].kind = "send"
    /\ T[k - 1].arg \in ReadRequests
    /\ ValidAnswer(T[k], CommandByte(T[k - 1].arg))

\* C25: a block request is sent directly after PROCESSING or directly after
\* the take of a valid frame whose command is that of the request before
\* it; a cardRead directly follows such a take; and after the take of any
\* other frame in answer to a block request, no block request, no ACK and
\* no cardRead follow before the next READY.
C25_Lockstep ==
    LET T == Obs
    IN  \A k \in 1..Len(T) :
          /\ (T[k].kind = "send" /\ T[k].arg \in ReadRequests) =>
                (k > 1 /\ (T[k - 1] = Status("PROCESSING") \/ RightAnswer(T, k - 1)))
          /\ T[k].kind = "cardRead" => RightAnswer(T, k - 1)
          /\ WrongAnswer(T, k) =>
                \A j \in (k + 1)..Len(T) :
                    ReadyBefore(T, j) = ReadyBefore(T, k) =>
                        T[j].kind \notin {"send", "cardRead"}

\* a frame of the requested command with a bad CRC ended a Card-5 readout
C25_Witness ==
    \E k \in 2..Len(trace) :
        /\ WrongAnswer(trace, k)
        /\ trace[k].frame.cmd = GET_SI_CARD_5
        /\ ~trace[k].frame.ok
        /\ Len(trace) > k

(* ------------------------- ack and card removal ------------------------- *)

\* position k of T ends the wait that follows the ACK sent at k - 1: a
\* frame was taken or the wait timed out
RemovalWaitEnds(T, k) ==
    /\ k >= 2
    /\ T[k - 1] = Sent("ACK_SEQUENCE")
    /\ T[k].kind = "take" \/ T[k] = Rejected("TimeoutError")

\* what follows a cardRead and the wait for the removal of the card
AckPolicy(T) ==
    \A k \in 1..Len(T) :
        /\ T[k].kind = "cardRead" => (Len(T) > k /\ T[k + 1] = Sent("ACK_SEQUENCE"))
        /\ RemovalWaitEnds(T, k) => (Len(T) > k /\ T[k + 1] = Status("READY"))

\* C26 as claimed: cardRead is followed by the ACK, and however the wait
\* for the removal ends, READY is the next event.
C26_AsClaimed == AckPolicy(Obs)

\* C26 (amended): as long as stop() has not been called, cardRead is
\* followed by the ACK, and however the wait for the removal ends (a
\* CARD_REMOVED frame, another frame, a timeout), READY is the next event:
\* no PROCESSING_ERROR and no FATAL_ERROR.
C26_AckAndWaitRemoval == ~StopWasCalled => AckPolicy(trace)

\* the wait for the removal timed out and the driver is back at READY
C26_Witness ==
    /\ ~StopWasCalled
    /\ pc = "ready"
    /\ \E k \in 2..Len(trace) :
          /\ RemovalWaitEnds(trace, k)
          /\ trace[k] = Rejected("TimeoutError")
          /\ Len(trace) = k + 1


(* ----------------------- punch-count-optimised readout ------------------ *)

\* the block requests in the history, in the order in which they were sent
BlockRequests ==
    SelectSeq(trace, LAMBDA e : e.kind = "send" /\ e.arg \in ReadRequests)

\* ceil(nb / 32)
Groups32(nb) == (nb + 31) \div 32

\* C24: in a Card-6 or Card-10+ readout whose block 0 was answered, with nb
\* the count byte of the answer (index 24 for Card 6, 28 for Card 10+) and
\* total = min(1 + ceil(nb / 32), length of the block list), the blocks
\* requested are the first blocks of the list [0,6,7,2,3,4,5] (Card 6) or
\* [0,4,5,6,7] (Card 10+) in list order, never more than total; a valid
\* answer to request i < total is directly followed by request i + 1, and
\* a valid answer to request total by cardRead.
C24_PunchCountReadout ==
    (/\ Len(trace) >= 5
     /\ trace[1] = Status("READY")
     /\ trace[2].kind = "take"
     /\ trace[2].frame.cmd \in {SI_CARD_6_PLUS_DETECTED, SI_CARD_8_PLUS_DETECTED}
     /\ trace[5].kind = "take"
     /\ trace[5].frame.ok) =>
        LET card6 == trace[2].frame.cmd = SI_CARD_6_PLUS_DETECTED
            list == IF card6 THEN <<0, 6, 7, 2, 3, 4, 5>> ELSE <<0, 4, 5, 6, 7>>
            command == IF card6 THEN GET_SI_CARD_6_BN ELSE GET_SI_CARD_8_PLUS_BN
            nb == IF card6 THEN trace[5].frame.b24 ELSE trace[5].frame.b28
            total == Min(1 + Groups32(nb), Len(list))
            reqs == BlockRequests
        IN  /\ Len(reqs) <= total
            /\ \A i \in 1..Len(reqs) :
                  /\ BlockNumber(reqs[i].arg) = list[i]
                  /\ CommandByte(reqs[i].arg) = command
                  /\ trace[2 + 2 * i] = reqs[i]
                  /\ (/\ Len(trace) >= 4 + 2 * i
                      /\ ValidAnswer(trace[3 + 2 * i], command)) =>
                        IF i < total
                        THEN trace[4 + 2 * i].kind = "send"
                             /\ BlockNumber(trace[4 + 2 * i].arg) = list[i + 1]
                        ELSE trace[4 + 2 * i].kind = "cardRead"

\* a Card 10+ with 33 punches was read in three requests, a Card 6 with
\* 255 punches in seven
C24_Witness ==
    \/ /\ trace[Len(trace)] = Status("READY")
       /\ Len(BlockRequests) = 3
       /\ trace[5] = Taken(Frame(GET_SI_CARD_8_PLUS_BN, TRUE, 0, 0, 0, 33))
       /\ \E k \in 1..Len(trace) : trace[k] = CardRead("SiCard 10/11/SIAC", 3)
    \/ /\ trace[Len(trace)] = Status("READY")
       /\ Len(BlockRequests) = 7
       /\ trace[5] = Taken(Frame(GET_SI_CARD_6_BN, TRUE, 0, 0, 255, 0))
       /\ \E k \in 1..Len(trace) : trace[k] = CardRead("SiCard 6", 7)


(* ------------------------------ accumulator ----------------------------- *)

\* the last call of handleSerialData() found nothing accumulated, or only
\* bytes older than TIMEOUT_DELAY
StartsFresh == call.before = <<>> \/ call.elapsed > TIMEOUT_DELAY

\* C21: a chunk that holds two complete frames one after the other, given
\* to an accumulator that holds nothing, pushes two messages: the first
\* frame, then the second, each with exactly its own bytes.
C21_BackToBackFrames ==
    (/\ call.fn = "handleSerialData"
     /\ call.before = <<>>
     /\ \E f \in {FrameA, FrameB}, g \in {FrameA, FrameB} :
            call.chunk = f \o g) =>
        \E f \in {FrameA, FrameB}, g \in {FrameA, FrameB} :
            /\ call.chunk = f \o g
            /\ call.pushed = <<f, g>>

\* the bytes in the accumulator after the chunk of the last call was
\* appended: those of the message it pushed or else those it left
Appended == IF call.pushed # <<>> THEN call.pushed[1] ELSE accBuffer

\* the first bytes of s, as far as the buffer has room
Clipped(s) == SubSeq(s, 1, Min(Len(s), ACC_CAPACITY))

\* what a call does to a partial frame: dropped when stale, else extended
StaleReset(limit) ==
    (/\ call.fn = "handleSerialData"
     /\ call.before # <<>>) =>
        IF call.elapsed >= limit
        THEN Appended = Clipped(call.chunk)
        ELSE Appended = Clipped(call.before \o call.chunk)

\* C22 as claimed: a partial frame is dropped when the chunk arrives
\* 500 ms or more after the previous one, and extended when it arrives
\* sooner.
C22_AsClaimed == StaleReset(TIMEOUT_DELAY)

\* C22: a partial frame is dropped when the chunk arrives more than 500 ms
\* after the previous one, and extended (as far as the 139 bytes of the
\* buffer go) when it arrives after 500 ms or less.
C22_StaleReset == StaleReset(TIMEOUT_DELAY + 1)

\* a chunk arrived exactly 500 ms after the first part of a frame and
\* completed it; another partial frame was dropped after 501 ms
C22_Witness ==
    /\ call.fn = "handleSerialData"
    /\ call.before = SubSeq(FrameB, 1, 4)
    /\ call.elapsed = TIMEOUT_DELAY
    /\ call.chunk = SubSeq(FrameB, 5, 7)
    /\ call.pushed = <<FrameB>>

\* C27: with buf the bytes accumulated after the chunk was appended (at
\* most 139, the rest of the chunk is dropped), a call pushes a message
\* exactly when buf is one byte other than STX or has at least 3 and at
\* least buf[2] + 6 bytes; the message is buf and the accumulator is empty
\* afterwards; otherwise nothing is pushed and the accumulator holds buf.
C27_DispatchRule ==
    /\ Len(accBuffer) <= ACC_CAPACITY
    /\ call.fn = "handleSerialData" =>
        LET buf == Clipped((IF StartsFresh THEN <<>> ELSE call.before) \o call.chunk)
            due == \/ Len(buf) = 1 /\ buf[1] # 2
                   \/ Len(buf) >= 3 /\ Len(buf) >= buf[3] + 6
        IN  IF due
            THEN /\ call.pushed = <<buf>>
                 /\ queue # <<>> /\ queue[Len(queue)] = buf
                 /\ accBuffer = <<>>
            ELSE /\ call.pushed = <<>>
                 /\ accBuffer = buf

\* a buffer filled by an oversized chunk took no further byte and pushed
\* nothing, after an oversized chunk had been cut at 139 bytes and pushed
C27_Witness ==
    /\ call.fn = "handleSerialData"
    /\ call.chunk = <<NAK>>
    /\ call.before = Clipped(Long(ACC_CAPACITY - 5))
    /\ call.elapsed <= TIMEOUT_DELAY
    /\ accBuffer = call.before
    /\ Len(queue) = 1 /\ Len(queue[1]) = ACC_CAPACITY


(* --------------------------- time normalisation ------------------------- *)

\* C30: advanceTimePast(NO_SI_TIME, ref, step) is NO_TIME;
\* advanceTimePast(raw, NO_TIME, step) is raw; for every other raw and ref
\* and a positive step the result is raw plus the smallest number of steps
\* that brings it to ref - 3 600 000 or beyond (raw itself when it is
\* already there).
C30_AdvanceKernel ==
    call.fn = "advanceTimePast" =>
        LET raw == call.timestamp
            ref == call.refTime
            step == call.stepTime
            r == call.result
        IN  IF raw = NO_SI_TIME THEN r = NO_TIME
            ELSE IF ref = NO_TIME THEN r = raw
            ELSE /\ r >= ref - 3600000
                 /\ r >= raw
                 /\ (r - raw) % step = 0
                 /\ r = raw \/ r - step < ref - 3600000
                 /\ raw >= ref - 3600000 => r = raw

\* a raw time was advanced by several steps, past the value NO_SI_TIME
C30_Witness ==
    /\ call.fn = "advanceTimePast"
    /\ call.timestamp = NO_SI_TIME - TWELVE_HOURS
    /\ call.refTime = 180000000
    /\ call.stepTime = TWELVE_HOURS
    /\ call.result = call.timestamp + 4 * TWELVE_HOURS


(* ------------------------------ the queue ------------------------------- *)

\* C28: frames are handed to takers in the order of their pushes and each
\* frame to one taker at most (the frames delivered, in the order of the
\* deliveries, have increasing push numbers); pending takers are served in
\* the order in which they started waiting (the waiter list is in starting
\* order, a push serves its first entry, and no taker that started after a
\* taker still waiting has a frame).
C28_QueueFifo ==
    call.fn = "queue" =>
        /\ \A i \in 1..Len(call.delivered), j \in 1..Len(call.delivered) :
              i < j => call.delivered[i][2] < call.delivered[j][2]
        /\ \A k \in 1..Len(waiters) :
              /\ call.promises[waiters[k].id].state = "pending"
              /\ \A l \in 1..Len(waiters) : k < l => waiters[k].id < waiters[l].id
              /\ \A j \in 1..Len(call.promises) :
                    j > waiters[k].id => call.promises[j].state # "resolved"
        /\ (call.last = "push" /\ call.before # <<>>) =>
              /\ call.delivered[Len(call.delivered)] = <<call.before[1].id, call.pushed>>
              /\ call.promises[call.before[1].id] =
                    ResolvedWith(Pending(call.before[1].kind), call.pushed)
        /\ \A i \in 1..Len(call.delivered) :
              call.promises[call.delivered[i][1]].state = "resolved"
              /\ call.promises[call.delivered[i][1]].value = call.delivered[i][2]

\* two takers waited, a take() and then a takeForever(), and two pushes
\* served them in that order; a third frame was queued and taken at once
C28_Witness ==
    /\ call.fn = "queue"
    /\ call.delivered = <<<<1, 1>>, <<2, 2>>, <<3, 3>>>>
    /\ call.promises[1].kind = "take" /\ call.promises[1].waited
    /\ call.promises[2].kind = "forever" /\ call.promises[2].waited
    /\ ~call.promises[3].waited

\* C29: after clear() every waiter that was pending, of take() and of
\* takeForever(), is completed with an error, and the frame list and the
\* waiter list are empty.
C29_ClearAbortsAll ==
    (call.fn = "queue" /\ call.last = "clear") =>
        /\ queue = <<>>
        /\ waiters = <<>>
        /\ \A k \in 1..Len(call.before) :
              call.promises[call.before[k].id].state = "rejected"


\* C39: the waiter list and the frame list are never both non-empty.
C39_QueueInvariant ==
    call.fn = "queue" => (Len(waiters) = 0 \/ Len(queue) = 0)

\* a push served the first of two waiters and queued nothing
C39_Witness ==
    /\ call.fn = "queue"
    /\ call.last = "push"
    /\ Len(call.before) = 2
    /\ Len(waiters) = 1
    /\ queue = <<>>

\* the promises of take(timeoutMs)
Takes == {i \in 1..Len(call.promises) : call.promises[i].kind = "take"}

\* a promise of take() is pending, holds a frame that was pushed, or was
\* rejected by its timer (or by clear()); a taker whose promise is settled
\* is not in the waiter list
TakeSettlements ==
    /\ \A i \in Takes :
          \/ call.promises[i].state = "pending"
          \/ call.promises[i].state = "resolved" /\ call.promises[i].value \in 1..call.pushed
          \/ call.promises[i].state = "rejected"
             /\ call.promises[i].value \in {"TimeoutError", "Queue cleared"}
    /\ \A k \in 1..Len(waiters) : call.promises[waiters[k].id].state = "pending"

\* one step of the queue as seen by the takers: a settled promise keeps
\* its outcome; a timer rejects the pending promise of its waiter with
\* TimeoutError and removes the waiter; a push hands its frame to the
\* first waiter, or stores it at the end of the frame list when nobody
\* waits; a take that finds frames stored returns the first of them
TakeStep ==
    /\ \A i \in Takes :
          call.promises[i].state # "pending" => call'.promises[i] = call.promises[i]
    /\ call'.last = "timer" =>
          \E k \in 1..Len(waiters) :
              /\ waiters[k].kind = "take"
              /\ call'.promises[waiters[k].id].state = "rejected"
              /\ call'.promises[waiters[k].id].value = "TimeoutError"
              /\ \A l \in 1..Len(waiters') : waiters'[l].id # waiters[k].id
    /\ call'.pushed # call.pushed =>
          IF waiters = <<>>
          THEN queue' = Append(queue, call'.pushed) /\ call'.promises = call.promises
          ELSE /\ call'.promises[waiters[1].id].state = "resolved"
               /\ call'.promises[waiters[1].id].value = call'.pushed
               /\ queue' = queue
    /\ (Len(call'.promises) # Len(call.promises) /\ queue # <<>>) =>
          /\ call'.promises[Len(call'.promises)].state = "resolved"
          /\ call'.promises[Len(call'.promises)].value = queue[1]
          /\ queue' = Tail(queue)

C40_CrcShortInput ==
    call.fn = "crc" =>
        /\ Len(call.buffer) < 2 => call.result = 0
        /\ Len(call.buffer) = 2 => call.result = call.buffer[1] * 256 + call.buffer[2]
        /\ call.result \in 0..65535


(* ------------------------- Card-5 reference times ----------------------- *)

\* a Card 5 was decoded and has at least n timed punches
DecodedWith(n) ==
    /\ call.fn = "parseSi5"
    /\ Min(call.result.punchCount, SI5_TIMED_PUNCHES) >= n

\* the reference after the first n punches: the timestamp of the latest of
\* them that is not NO_TIME, init if there is none
RECURSIVE RefAfter(_, _, _)
RefAfter(punches, n, init) ==
    IF n <= 0 THEN init
    ELSE IF punches[n].timestampMs # NO_TIME THEN punches[n].timestampMs
    ELSE RefAfter(punches, n - 1, init)

\* the reference time from zerohour and the decoded start time, as
\* newRefTime() gives it
StartRef == IF call.result.startTime # NO_TIME THEN call.result.startTime ELSE call.zerohour

\* C31: the finish time of a Card 5 is advance(rawFinish, ref, 12 h), where
\* ref is the timestamp of the latest timed punch that resolved to a time,
\* or the initial reference when none did; also when the last timed punch
\* is NO_TIME and an earlier one resolved.
C31_Si5FinishTime ==
    DecodedWith(0) =>
        call.result.finishTime =
            AdvanceTimePast(TimestampAt(call.data, 21),
                            RefAfter(call.result.punches,
                                     Min(call.result.punchCount, SI5_TIMED_PUNCHES),
                                     StartRef),
                            TWELVE_HOURS)

\* max(zero_hour, start), with NO_TIME below every zero hour
MaxRef == IF call.result.startTime > call.zerohour THEN call.result.startTime ELSE call.zerohour

\* C32: the first timed punch of a Card 5 is resolved against the reference
\* max(zero_hour, start), start being the resolved start time.
C32_Si5FirstReference ==
    DecodedWith(1) =>
        call.result.punches[1].timestampMs =
            AdvanceTimePast(TimestampAt(call.data, Si5Offset(0) + 1), MaxRef, TWELVE_HOURS)


(* ------------------------- the inline alignment ------------------------- *)

\* the length of the longest common subsequence of a and b
RECURSIVE Lcs(_, _)
Lcs(a, b) ==
    IF a = <<>> \/ b = <<>> THEN 0
    ELSE IF Head(a) = Head(b) THEN 1 + Lcs(Tail(a), Tail(b))
    ELSE LET x == Lcs(Tail(a), b)
             y == Lcs(a, Tail(b))
         IN  IF x > y THEN x ELSE y

\* the controls reported found
FoundControls ==
    {i \in 1..Len(call.result.controlResults) : call.result.controlResults[i].found}

\* C33: the number of controls validateInline reports found is the length
\* of the longest common subsequence of the controls of the course and the
\* codes of the punches.
C33_InlineBestAlignment ==
    call.fn = "validateInline" =>
        Cardinality(FoundControls) = Lcs(call.course.controls, CodesOf(call.punches))

\* the positions of the punches that carry the timestamp of result i
MatchedPunches(i) ==
    {q \in 1..Len(call.punches) :
        call.punches[q].timestampMs = call.result.controlResults[i].timestampMs}

\* C34: in a result of validateInline every control reported found carries
\* the timestamp of a punch of its own code, and these punches come in
\* strictly increasing position as the control index increases (so no punch
\* serves two controls).
C34_InlineCommonSubsequence ==
    call.fn = "validateInline" =>
        /\ \A i \in FoundControls :
              \E q \in MatchedPunches(i) :
                  call.punches[q].code = call.result.controlResults[i].expectedCode
        /\ \A i \in FoundControls, k \in FoundControls :
              i < k => \A q \in MatchedPunches(i), r \in MatchedPunches(k) : q < r

\* C35: validateInline of the renderer returns the control results, the
\* missing count, the extra controls and all_correct that validateInline of
\* validator.ts returns for the same course and punches.
C35_RendererAgrees ==
    call.fn = "rendererValidateInline" =>
        call.result = validateInline(call.course, call.punches)


(* --------------------------- no detection dropped ----------------------- *)

\* C36: a card-detection frame (command 0xE5, 0xE6 or 0xE8) that the
\* running driver takes from the queue in its main loop is directly
\* followed by PROCESSING and by the first read request for that card; no
\* other wait (such as the wait for the card removal after the ACK)
\* consumes it.
C36_NoDetectionDropped ==
    \A k \in 1..Len(trace) :
        (/\ trace[k].kind = "take"
         /\ trace[k].frame.cmd \in DetectionCommands
         /\ ReadyBefore(trace, k) > 0
         /\ \A j \in 1..k : trace[j] # StopCalled) =>
            /\ Len(trace) >= k + 2
            /\ trace[k + 1] = Status("PROCESSING")
            /\ trace[k + 2].kind = "send"
            /\ trace[k + 2].arg \in ReadRequests

(* -------------------------- quiescence after stop ----------------------- *)

\* C38: after stop() was called the driver emits no cardRead and no status
\* other than OFF.
C38_QuietAfterStop ==
    \A k \in 1..Len(trace) :
        trace[k] = StopCalled =>
            \A j \in (k + 1)..Len(trace) :
                /\ trace[j].kind # "cardRead"
                /\ IsStatus(trace[j]) => trace[j] = Status("OFF")

====
